---- MODULE Spec2Model ----
(***************************************************************************)
(* s3router: the rule compiler (config.Load, LoadConfig), the routing      *)
(* lookup (Config.Lookup, ruleRT.lookupAction), the store router           *)
(* (routeAction, PhysicalBuckets, dispatch, the PutObject body), the HTTP  *)
(* round-tripper (RoundTrip, doFallback, doDual, sendOnce, s3op,           *)
(* parseS3Path) and the customizer registry.                               *)
(*                                                                         *)
(* A Go string whose bytes the code inspects (bucket, prefix, key, the     *)
(* bucket@endpoint syntax, action tokens that are lower-cased, URL paths   *)
(* and hosts) is a sequence of byte values.  A Go string the code only     *)
(* compares or uses as a map key (operation names, and in package config   *)
(* the action tokens and endpoint names) is a TLA+ string.  A Go map is a  *)
(* function; a nil map is the empty function <<>>.                         *)
(***************************************************************************)
EXTENDS Integers, Sequences, FiniteSets, TLC

VARIABLES
    pc,      \* "start", then "loaded" or "failed" once config.Load returned
    yml,     \* the document handed to config.Load (yamlConfig)
    cfg,     \* *Config returned by config.Load, Nil when none
    err,     \* error returned by config.Load, Nil when none
    ret,     \* the last call on the loaded Config and what it returned
    hpc,     \* "start", then "loaded" or "failed" once LoadConfig returned
    hyml,    \* the document handed to LoadConfig (package s3router)
    hcfg,    \* *Config returned by LoadConfig, Nil when none
    herr,    \* error returned by LoadConfig, Nil when none
    hret,    \* the last ruleRT.lookupAction call and what it returned
    dpc,     \* where the goroutine that called dispatch is
    daction, \* the action dispatch was called with
    dmode,   \* the branch of the switch of dispatch
    dres,    \* what op returns for the first and for the second store
    gA,      \* the goroutine of the primary leg: "none", "ready", "in", "done"
    gB,      \* the goroutine of the secondary leg
    wg,      \* the counter of the sync.WaitGroup
    dout,    \* the variable out of doParallel
    derrA,   \* the variable errA (err in the best-effort branch)
    derrB,   \* the variable errB
    dret,    \* what dispatch returned
    dlog,    \* the calls and returns of op so far, in order
    dclosed, \* the outputs of op that dispatch or a goroutine of it closed
    tpc,     \* where the goroutine that called RoundTrip is
    taction, \* the action lookupAction returned
    tmode,   \* the branch RoundTrip takes
    tout,    \* what sendOnce returns on each endpoint
    tsplit,  \* drainBody or teeBody fails on the request body
    tep,     \* the endpoint of the sendOnce of the calling goroutine
    leg,     \* the leg goroutines of doDual: "none", "ready", "sent", "done"
    chan,    \* the channel c of doDual
    resA,    \* the first result received from c
    resB,    \* the second result received from c
    tret,    \* what RoundTrip returned
    sent,    \* the requests sent to each endpoint
    closed,  \* the endpoints whose response had its Body closed
    bpc,     \* "idle", then "drained", "tee", "shared" or "failed"
    baction, \* the action PutObject dispatches with
    blen,    \* in.ContentLength: empty for nil, else the declared length
    bsrc,    \* the source handed to drainBody or teeBody
    bctx,    \* the context of the call is cancelled
    berr,    \* the error drainBody returned
    bdata,   \* the bytes the readers of drainBody hold
    rd,      \* the offset of each bytes.Reader
    base,    \* where the last Seek through each handle went
    got,     \* the bytes each handle yielded since
    hend,    \* "open", or what the last Read of each handle ended with
    consume, \* the handles of teeBody that are read
    cpc,     \* where the copy goroutine of teeBody is
    chunk,   \* the bytes of the Write in progress of the MultiWriter
    cpos,    \* the bytes of the source io.Copy has read
    pend,    \* the bytes of the Write in progress on each pipe not yet read
    wend,    \* "open", or the error each pipe was closed with
    cops,    \* the closes the copy goroutine has left to do
    customizers, \* the package variable customizers
    reglog,  \* the RegisterCustomizer calls so far, in order
    kpc,     \* "idle", "before" once Before returned, "after" once After did,
             \* "failed" once the transport returned an error
    kcall    \* the endpoint of the leg, what its customizer's methods did and
             \* what sendOnce returned

vars == <<pc, yml, cfg, err, ret, hpc, hyml, hcfg, herr, hret,
          dpc, daction, dmode, dres, gA, gB, wg, dout, derrA, derrB, dret, dlog,
          dclosed,
          tpc, taction, tmode, tout, tsplit, tep, leg, chan, resA, resB, tret, sent,
          closed,
          bpc, baction, blen, bsrc, bctx, berr, bdata, rd, base, got, hend, consume,
          cpc, chunk, cpos, pend, wend, cops,
          customizers, reglog, kpc, kcall>>

configVars == <<pc, yml, cfg, err, ret>>
rtVars == <<hpc, hyml, hcfg, herr, hret>>
dispatchVars == <<dpc, daction, dmode, dres, gA, gB, wg, dout, derrA, derrB, dret, dlog,
                  dclosed>>
transportVars == <<tpc, taction, tmode, tout, tsplit, tep, leg, chan, resA, resB,
                   tret, sent, closed>>
bodyVars == <<bpc, baction, blen, bsrc, bctx, berr, bdata, rd, base, got, hend,
              consume, cpc, chunk, cpos, pend, wend, cops>>
hookVars == <<customizers, reglog, kpc, kcall>>
Nil == "nil"

-----------------------------------------------------------------------------
(* Bounds of the model *)

MaxBlocks == 3      \* prefix blocks of one document, over all its yaml rules
MaxPrefixLen == 2   \* bytes of a prefix (besides "*")
MaxKeyLen == 2      \* bytes of an object key
MaxBody == 3        \* bytes of a request body
MaxRead == 2        \* bytes of the buffer handed to a Read
MaxBufferBytes == 2 \* router.maxBufferBytes

-----------------------------------------------------------------------------
(* Strings *)

Star == <<42>>          \* "*"

Strings(alphabet, n) == UNION {[1..k -> alphabet] : k \in 0..n}

\* Go's s < t on strings: bytewise lexicographic order.
StrLess(s, t) ==
    \E k \in 0..(IF Len(s) < Len(t) THEN Len(s) ELSE Len(t)) :
        /\ \A i \in 1..k : s[i] = t[i]
        /\ \/ (k = Len(s) /\ k < Len(t))
           \/ (k < Len(s) /\ k < Len(t) /\ s[k + 1] < t[k + 1])

\* strings.HasPrefix(s, prefix)
HasPrefix(s, prefix) ==
    Len(prefix) <= Len(s) /\ SubSeq(s, 1, Len(prefix)) = prefix

-----------------------------------------------------------------------------
(* package config: the compiled configuration *)

ActPrimary == "primary"
ActSecondary == "secondary"
ActFallback == "fallback"
ActMirror == "mirror"
ActBestEffort == "best-effort"

\* Rule{}: the zero value
ZeroRule == [Bucket |-> <<>>, Prefix |-> <<>>, Actions |-> <<>>]

\* m[k] on a Go map of Action: the zero value "" when k is absent
ActionAt(m, k) == IF k \in DOMAIN m THEN m[k] ELSE ""

\* The body of Load's loop over yr.Prefix: the Rule built from one prefix block.
CompileRule(bucket, prefix, actions) ==
    [Bucket |-> bucket,
     Prefix |-> IF prefix = Star THEN <<>> ELSE prefix,
     Actions |-> [op \in DOMAIN actions |-> actions[op]]]

\* Load's loop over one yaml rule's prefix map (Go ranges over a map in an
\* unspecified order; the order is fixed here and released again by the sort).
RECURSIVE RulesOfPrefixes(_, _, _)
RulesOfPrefixes(bucket, prefixMap, todo) ==
    IF todo = {} THEN <<>>
    ELSE LET p == CHOOSE x \in todo : TRUE
         IN <<CompileRule(bucket, p, prefixMap[p])>>
                \o RulesOfPrefixes(bucket, prefixMap, todo \ {p})

\* Load's loop over yml.Rules: cfg.Rules before validation and sorting.
RECURSIVE AppendRules(_, _)
AppendRules(rules, i) ==
    IF i > Len(rules) THEN <<>>
    ELSE RulesOfPrefixes(rules[i].Bucket, rules[i].Prefix, DOMAIN rules[i].Prefix)
            \o AppendRules(rules, i + 1)

\* A validation that looks at the first compiled rule only.
MissingDefault_FirstOnly(rules) ==
    Len(rules) > 0 /\ "*" \notin DOMAIN rules[1].Actions

\* Load's validation of the default operation.
MissingDefault(rules) ==
    \E i \in 1..Len(rules) : "*" \notin DOMAIN rules[i].Actions

\* The less function Load gives sort.Slice.
RuleLess(a, b) ==
    IF a.Bucket # b.Bucket
    THEN StrLess(a.Bucket, b.Bucket)
    ELSE StrLess(b.Prefix, a.Prefix)

Perms(n) == {p \in [1..n -> 1..n] : \A i, j \in 1..n : i # j => p[i] # p[j]}

\* sort.Slice is not stable: any arrangement of rules that the less function
\* accepts as sorted.
SortSlice(rules) ==
    {s \in {[i \in 1..Len(rules) |-> rules[p[i]]] : p \in Perms(Len(rules))} :
        \A i, j \in 1..Len(s) : i < j => ~RuleLess(s[j], s[i])}

\* Load: the set of (config, error) pairs a call on yml may return.
Load(y) ==
    LET rules == AppendRules(y.Rules, 1)
    IN IF MissingDefault(rules)
       THEN {[cfg |-> Nil, err |-> "missing default \"*\" operation"]}
       ELSE {[cfg |-> [Endpoints |-> y.Endpoints,
                       Buckets |-> y.Buckets,
                       Rules |-> s],
              err |-> Nil] : s \in SortSlice(rules)}

\* The two continue conditions of Lookup's loop, negated.
RuleMatches(rule, bucket, key) ==
    /\ ~(rule.Bucket # bucket /\ rule.Bucket # Star)
    /\ ~(rule.Prefix # <<>> /\ ~HasPrefix(key, rule.Prefix))

\* A Lookup that tries the default entry before the exact operation.
Lookup_DefaultFirst(c, bucket, key, op) ==
    LET hits == {i \in 1..Len(c.Rules) : RuleMatches(c.Rules[i], bucket, key)}
    IN IF hits = {}
       THEN [rule |-> ZeroRule, act |-> ActPrimary]
       ELSE LET first == CHOOSE i \in hits : \A j \in hits : i <= j
                rule == c.Rules[first]
            IN IF "*" \in DOMAIN rule.Actions
               THEN [rule |-> rule, act |-> rule.Actions["*"]]
               ELSE [rule |-> rule, act |-> ActionAt(rule.Actions, op)]

\* A Lookup that returns the zero Action when nothing matches.
Lookup_ZeroOnMiss(c, bucket, key, op) ==
    LET hits == {i \in 1..Len(c.Rules) : RuleMatches(c.Rules[i], bucket, key)}
    IN IF hits = {}
       THEN [rule |-> ZeroRule, act |-> ""]
       ELSE LET first == CHOOSE i \in hits : \A j \in hits : i <= j
                rule == c.Rules[first]
            IN IF op \in DOMAIN rule.Actions
               THEN [rule |-> rule, act |-> rule.Actions[op]]
               ELSE [rule |-> rule, act |-> ActionAt(rule.Actions, "*")]

\* Config.Lookup
Lookup(c, bucket, key, op) ==
    LET hits == {i \in 1..Len(c.Rules) : RuleMatches(c.Rules[i], bucket, key)}
    IN IF hits = {}
       THEN [rule |-> ZeroRule, act |-> ActPrimary]
       ELSE LET first == CHOOSE i \in hits : \A j \in hits : i <= j
                rule == c.Rules[first]
            IN IF op \in DOMAIN rule.Actions
               THEN [rule |-> rule, act |-> rule.Actions[op]]
               ELSE [rule |-> rule, act |-> ActionAt(rule.Actions, "*")]

\* Config.IsLogicalBucket
IsLogicalBucket(c, bucket) == bucket \in DOMAIN c.Buckets

\* Config.PhysicalBuckets
PhysicalBuckets(c, logical) ==
    IF logical \in DOMAIN c.Buckets
    THEN <<c.Buckets[logical].Primary, c.Buckets[logical].Secondary>>
    ELSE <<logical, logical>>

\* router.routeAction
routeAction(c, op, bucket, key) ==
    IF ~IsLogicalBucket(c, bucket)
    THEN [action |-> "", err |-> "bucket is not configured"]
    ELSE [action |-> Lookup(c, bucket, key, op).act, err |-> Nil]

-----------------------------------------------------------------------------
(* Inputs of package config *)

BucketA == <<97>>   \* "a"
BucketB == <<98>>   \* "b"

RuleOps == {"*", "GetObject"}           \* operation keys of a prefix block
QueryOps == {"GetObject", "PutObject"}  \* operations the router looks up
QueryBuckets == {BucketA, BucketB}
\* the keys "", "a", "aa", ... and the key "b" that only the empty prefix matches
Keys == Strings({97}, MaxKeyLen) \cup {<<98>>}
PrefixKeys == Strings({97}, MaxPrefixLen) \cup {Star}

OpMaps(tokens) == UNION {[D -> tokens] : D \in SUBSET RuleOps}

\* The prefix maps with exactly k prefix blocks.
PrefixMaps(prefixes, opMaps, k) ==
    UNION {[D -> opMaps] : D \in {S \in SUBSET prefixes : Cardinality(S) = k}}

\* The elements of S in a list.
RECURSIVE ListOf(_)
ListOf(S) ==
    IF S = {} THEN <<>>
    ELSE LET x == CHOOSE y \in S : TRUE IN <<x>> \o ListOf(S \ {x})

\* The lists of yaml rules taken from u[from], u[from + 1], ... in that order,
\* with at most budget prefix blocks in all.
RECURSIVE RuleLists(_, _, _)
RuleLists(u, from, budget) ==
    {<<>>} \cup UNION {
        {<<u[i]>> \o rest :
            rest \in RuleLists(u, i + 1, budget - Cardinality(DOMAIN u[i].Prefix))} :
        i \in {j \in from..Len(u) : Cardinality(DOMAIN u[j].Prefix) <= budget}}

\* The i-th yaml rule over the buckets B, the prefixes P and the operation
\* maps O (lists): i - 1 written with one digit for the bucket and one digit
\* for each prefix, 0 for a prefix the rule does not have.
YamlRuleAt(B, P, O, i) ==
    LET r == (i - 1) \div Len(B)
        digit(j) == (r \div ((Len(O) + 1) ^ (j - 1))) % (Len(O) + 1)
        at(p) == CHOOSE j \in 1..Len(P) : P[j] = p
    IN [Bucket |-> B[((i - 1) % Len(B)) + 1],
        Prefix |-> [p \in {P[j] : j \in {k \in 1..Len(P) : digit(k) # 0}} |->
                       O[digit(at(p))]]]

\* The yaml rules lists with at most budget prefix blocks in all, one list
\* for each set of yaml rules (the loaders sort what they compiled, so the
\* order of a list of valid rules does not matter).
RulesLists(buckets, prefixes, opMaps, budget) ==
    LET B == ListOf(buckets)
        P == ListOf(prefixes)
        O == ListOf(opMaps)
        n == Len(B) * ((Len(O) + 1) ^ Len(P))
        fits(r) == Cardinality(DOMAIN r.Prefix) \in 1..budget
    IN RuleLists(SelectSeq([i \in 1..n |-> YamlRuleAt(B, P, O, i)], fits), 1, budget)

Url == "http://host"
MappingA == (BucketA :> [Primary |-> BucketA, Secondary |-> BucketB])

\* The documents handed to Load.  RoutingDocs vary the shape of the routing
\* table: well-formed prefix blocks under the wildcard bucket and one named
\* bucket.  ValidationDocs vary what a loader has to validate: the endpoints,
\* the bucket mapping, the operations and the action tokens of one yaml rule.
YamlDocs ==
    LET EndpointMaps == {[e \in D |-> Url] : D \in SUBSET {"primary", "secondary"}}
        BothEndpoints == [e \in {"primary", "secondary"} |-> Url]
        \* a field the document leaves out decodes to ""
        BucketMaps == {<<>>, MappingA,
                       (BucketA :> [Primary |-> BucketB, Secondary |-> <<>>]),
                       (BucketA :> [Primary |-> <<>>, Secondary |-> BucketB])}
        RoutingOpMaps ==
            {[o \in {"*"} |-> ActPrimary],
             [o \in RuleOps |-> IF o = "*" THEN ActSecondary ELSE ActMirror]}
        RoutingDocs ==
            {[Endpoints |-> BothEndpoints, Buckets |-> MappingA, Rules |-> l] :
                l \in RulesLists({Star, BucketA}, PrefixKeys, RoutingOpMaps, MaxBlocks)}
        ValidationDocs ==
            {[Endpoints |-> e, Buckets |-> b,
              Rules |-> <<[Bucket |-> BucketA, Prefix |-> pm]>>] :
                e \in EndpointMaps, b \in BucketMaps,
                pm \in UNION {PrefixMaps({<<>>, Star},
                                         OpMaps({ActPrimary, ActFallback, "bogus"}), k) :
                                k \in 0..2}}
    IN RoutingDocs \cup ValidationDocs

-----------------------------------------------------------------------------
(* The store router's configuration: load once, then query *)

NoCall == [fn |-> "none"]

Init ==
    /\ pc = "start" /\ yml = Nil /\ cfg = Nil /\ err = Nil /\ ret = NoCall
    /\ hpc = "start" /\ hyml = Nil /\ hcfg = Nil /\ herr = Nil /\ hret = NoCall
    /\ dpc = "idle" /\ daction = Nil /\ dmode = Nil
    /\ dres = [s1 |-> [out |-> "", err |-> Nil], s2 |-> [out |-> "", err |-> Nil]]
    /\ gA = "none" /\ gB = "none" /\ wg = 0
    /\ dout = "" /\ derrA = Nil /\ derrB = Nil
    /\ dret = [out |-> "", err |-> Nil] /\ dlog = <<>> /\ dclosed = {}
    /\ tpc = "idle" /\ taction = <<>> /\ tmode = Nil
    /\ tout = [ep \in {"primary", "secondary"} |->
                 [resp |-> [from |-> "none", status |-> 0], err |-> Nil]]
    /\ tsplit = FALSE /\ tep = Nil
    /\ leg = [ep \in {"primary", "secondary"} |-> "none"]
    /\ chan = <<>>
    /\ resA = [resp |-> [from |-> "none", status |-> 0], err |-> Nil]
    /\ resB = [resp |-> [from |-> "none", status |-> 0], err |-> Nil]
    /\ tret = [resp |-> [from |-> "none", status |-> 0], err |-> Nil]
    /\ sent = [ep \in {"primary", "secondary"} |-> 0]
    /\ closed = {}
    /\ bpc = "idle" /\ baction = Nil /\ blen = {}
    /\ bsrc = [data |-> <<>>, failAt |-> -1]
    /\ bctx = FALSE /\ berr = Nil /\ bdata = <<>>
    /\ rd = [o \in {1, 2} |-> 0] /\ base = [h \in {1, 2} |-> 0]
    /\ got = [h \in {1, 2} |-> <<>>] /\ hend = [h \in {1, 2} |-> "open"]
    /\ consume = {} /\ cpc = "none" /\ chunk = <<>> /\ cpos = 0
    /\ pend = [h \in {1, 2} |-> <<>>] /\ wend = [h \in {1, 2} |-> "open"]
    /\ cops = <<>>
    /\ customizers = <<>> /\ reglog = <<>> /\ kpc = "idle"
    /\ kcall = [ep |-> "", before |-> <<>>, after |-> <<>>, failing |-> {}, err |-> Nil,
                resp |-> [from |-> "none", status |-> 0]]

DoLoad ==
    /\ pc = "start"
    /\ \E y \in YamlDocs : \E r \in Load(y) :
          /\ yml' = y
          /\ cfg' = r.cfg
          /\ err' = r.err
          /\ pc' = IF r.err = Nil THEN "loaded" ELSE "failed"
    /\ UNCHANGED <<ret, hpc, hyml, hcfg, herr, hret,
                   dispatchVars, transportVars, bodyVars, hookVars>>

\* ret keeps the last call only and the Config never changes, so a second
\* call reaches no state that a first call does not reach.
DoLookup ==
    /\ pc = "loaded" /\ ret = NoCall
    /\ \E bucket \in QueryBuckets, key \in Keys, op \in QueryOps :
          ret' = [fn |-> "Lookup", bucket |-> bucket, key |-> key, op |-> op,
                  out |-> Lookup(cfg, bucket, key, op)]
    /\ UNCHANGED <<pc, yml, cfg, err, hpc, hyml, hcfg, herr, hret,
                   dispatchVars, transportVars, bodyVars, hookVars>>

DoRouteAction ==
    /\ pc = "loaded" /\ ret = NoCall
    /\ \E bucket \in QueryBuckets, key \in Keys, op \in QueryOps :
          LET out == routeAction(cfg, op, bucket, key)
              phys == PhysicalBuckets(cfg, bucket)
          IN ret' = [fn |-> "routeAction", bucket |-> bucket, key |-> key, op |-> op,
                     out |-> out,
                     inPrimary |-> IF out.err = Nil THEN phys[1] ELSE <<>>,
                     inSecondary |-> IF out.err = Nil THEN phys[2] ELSE <<>>]
    /\ UNCHANGED <<pc, yml, cfg, err, hpc, hyml, hcfg, herr, hret,
                   dispatchVars, transportVars, bodyVars, hookVars>>

DoPhysicalBuckets ==
    /\ pc = "loaded" /\ ret = NoCall
    /\ \E logical \in QueryBuckets :
          ret' = [fn |-> "PhysicalBuckets", bucket |-> logical,
                  out |-> PhysicalBuckets(cfg, logical)]
    /\ UNCHANGED <<pc, yml, cfg, err, hpc, hyml, hcfg, herr, hret,
                   dispatchVars, transportVars, bodyVars, hookVars>>

Spec == Init /\ [][DoLoad \/ DoLookup \/ DoRouteAction \/ DoPhysicalBuckets]_vars

-----------------------------------------------------------------------------
(* package s3router: LoadConfig and ruleRT.lookupAction.  Bucket strings,   *)
(* endpoint names, prefixes and action tokens are split, lower-cased or     *)
(* measured by the code, so they are sequences of bytes here.               *)

PrimaryName == <<112, 114, 105, 109, 97, 114, 121>>               \* "primary"
SecondaryName == <<115, 101, 99, 111, 110, 100, 97, 114, 121>>    \* "secondary"

actPrimary == <<112, 114, 105, 109, 97, 114, 121>>
actSecondary == <<115, 101, 99, 111, 110, 100, 97, 114, 121>>
actFallback == <<102, 97, 108, 108, 98, 97, 99, 107>>
actMirror == <<109, 105, 114, 114, 111, 114>>
actBestEffort == <<98, 101, 115, 116, 45, 101, 102, 102, 111, 114, 116>>

reserved == {actPrimary, actSecondary, actFallback, actMirror, actBestEffort}

SepColon == <<58>>      \* ":"
SepAt == <<64>>         \* "@"
SepSlash == <<47>>      \* "/"

\* strings.ToLower on ASCII bytes
ToLower(s) ==
    [i \in 1..Len(s) |-> IF s[i] >= 65 /\ s[i] <= 90 THEN s[i] + 32 ELSE s[i]]

\* strings.Index for a separator of one byte; 0 when absent
Index(s, sep) ==
    IF \E i \in 1..Len(s) : s[i] = sep[1]
    THEN CHOOSE i \in 1..Len(s) :
            s[i] = sep[1] /\ \A j \in 1..(i - 1) : s[j] # sep[1]
    ELSE 0

\* strings.SplitN(s, sep, 2)
SplitN2(s, sep) ==
    LET i == Index(s, sep)
    IN IF i = 0 THEN <<s>>
       ELSE <<SubSeq(s, 1, i - 1), SubSeq(s, i + 1, Len(s))>>

\* strings.Split(s, sep)
RECURSIVE Split(_, _)
Split(s, sep) ==
    LET i == Index(s, sep)
    IN IF i = 0 THEN <<s>>
       ELSE <<SubSeq(s, 1, i - 1)>> \o Split(SubSeq(s, i + 1, Len(s)), sep)

\* m[k] = v on a Go map
MapPut(m, k, v) == [x \in DOMAIN m \cup {k} |-> IF x = k THEN v ELSE m[x]]

ZeroRuleRT == [Bucket |-> <<>>, Alias |-> <<>>, Prefix |-> <<>>, ActionFor |-> <<>>]

\* The two halves of a route "bucket/prefix" of the shorthand format.
RouteBucket(route) == SplitN2(route, SepSlash)[1]
RoutePrefix(route) ==
    LET parts == SplitN2(route, SepSlash)
    IN IF Len(parts) = 2 THEN parts[2] ELSE <<>>

\* The rule lists the shorthand conversion can produce: two routes with the
\* same bucket and prefix overwrite one another in map iteration order, and
\* the buckets are appended in map iteration order.
RoutesToRules(routes) ==
    LET pairs == {<<RouteBucket(r), RoutePrefix(r)>> : r \in DOMAIN routes}
        names == {bp[1] : bp \in pairs}
        n == Cardinality(names)
        winners == {w \in [pairs -> DOMAIN routes] :
                      \A bp \in pairs :
                          <<RouteBucket(w[bp]), RoutePrefix(w[bp])>> = bp}
        orders == {o \in [1..n -> names] : \A i, j \in 1..n : i # j => o[i] # o[j]}
    IN {[i \in 1..n |->
            [Bucket |-> o[i],
             Prefix |-> [p \in {bp[2] : bp \in {x \in pairs : x[1] = o[i]}} |->
                            routes[w[<<o[i], p>>]]]]] :
          w \in winners, o \in orders}

\* The loop over the tokens of a bucket string "name@ep:name@ep".
RECURSIVE ParseBucket(_, _, _, _)
ParseBucket(toks, i, aliasMap, canonBucket) ==
    IF i > Len(toks)
    THEN [empty |-> FALSE, Alias |-> aliasMap, Bucket |-> canonBucket]
    ELSE LET parts == SplitN2(toks[i], SepAt)
             name == parts[1]
             ep == IF Len(parts) = 2 THEN parts[2] ELSE PrimaryName
         IN IF name = <<>>
            THEN [empty |-> TRUE, Alias |-> aliasMap, Bucket |-> canonBucket]
            ELSE ParseBucket(toks, i + 1, MapPut(aliasMap, ep, name),
                             IF ep = PrimaryName THEN name ELSE canonBucket)

\* The errors one prefix block can return; the operations of a block are
\* visited in map iteration order, so any unknown token can be the one reported.
BlockErrors(yr, prefix) ==
    LET ops == yr.Prefix[prefix]
    IN IF DOMAIN ops = {}
       THEN {[msg |-> "no operations defined", bucket |-> yr.Bucket, prefix |-> prefix]}
       ELSE IF "*" \notin DOMAIN ops
       THEN {[msg |-> "missing default \"*\" operation", bucket |-> yr.Bucket,
              prefix |-> prefix]}
       ELSE {[msg |-> "unknown action", bucket |-> yr.Bucket, prefix |-> prefix,
              op |-> op, tok |-> ops[op]] :
                op \in {o \in DOMAIN ops : ToLower(ops[o]) \notin reserved}}

\* The errors one yaml rule can return, {} when it compiles; the prefix
\* blocks are visited in map iteration order.
RuleErrors(yr) ==
    LET parsed == ParseBucket(Split(yr.Bucket, SepColon), 1, <<>>, <<>>)
    IN IF parsed.empty
       THEN {[msg |-> "empty bucket name in rule", bucket |-> yr.Bucket]}
       ELSE IF parsed.Bucket = <<>>
       THEN {[msg |-> "rule missing primary bucket definition (@primary)",
              bucket |-> yr.Bucket]}
       ELSE IF DOMAIN yr.Prefix = {}
       THEN {[msg |-> "rule block is empty", bucket |-> yr.Bucket]}
       ELSE UNION {BlockErrors(yr, p) : p \in DOMAIN yr.Prefix}

\* The Rule objects of one yaml rule, one for each prefix of todo.
RECURSIVE CompileBlocks(_, _, _)
CompileBlocks(yr, parsed, todo) ==
    IF todo = {} THEN <<>>
    ELSE LET prefix == CHOOSE p \in todo : TRUE
             ops == yr.Prefix[prefix]
         IN <<[Bucket |-> parsed.Bucket,
               Alias |-> parsed.Alias,
               Prefix |-> prefix,
               ActionFor |-> [op \in DOMAIN ops |-> ToLower(ops[op])]]>>
            \o CompileBlocks(yr, parsed, todo \ {prefix})

RECURSIVE CompileRules(_, _)
CompileRules(yrules, i) ==
    IF i > Len(yrules) THEN <<>>
    ELSE CompileBlocks(yrules[i],
                       ParseBucket(Split(yrules[i].Bucket, SepColon), 1, <<>>, <<>>),
                       DOMAIN yrules[i].Prefix)
         \o CompileRules(yrules, i + 1)

\* The less function of the sort: canonical bucket, then longest prefix first.
LessRT(a, b) ==
    IF a.Bucket # b.Bucket
    THEN StrLess(a.Bucket, b.Bucket)
    ELSE Len(a.Prefix) > Len(b.Prefix)

\* sort.Slice is not stable and the rules were appended in map iteration
\* order: every arrangement the less function accepts is a possible table.
SortRules(rules) ==
    {s \in {[i \in 1..Len(rules) |-> rules[p[i]]] : p \in Perms(Len(rules))} :
        \A i, j \in 1..Len(s) : i < j => ~LessRT(s[j], s[i])}

\* LoadConfig from the endpoint check on, for one list of yaml rules.
LoadRules(endpoints, yrules) ==
    IF PrimaryName \notin DOMAIN endpoints
    THEN {[err |-> [msg |-> "missing mandatory endpoint \"primary\""]]}
    ELSE LET bad == {i \in 1..Len(yrules) : RuleErrors(yrules[i]) # {}}
         IN IF bad # {}
            THEN LET first == CHOOSE i \in bad : \A j \in bad : i <= j
                 IN {[err |-> e] : e \in RuleErrors(yrules[first])}
            ELSE {[cfg |-> [Endpoints |-> endpoints, Rules |-> s]] :
                    s \in SortRules(CompileRules(yrules, 1))}

\* What LoadConfig can return for a parsed document: [cfg |-> c] with a nil
\* error, or [err |-> e] with a nil Config.
LoadConfig(y) ==
    LET lists == IF Len(y.Rules) = 0 /\ DOMAIN y.Routes # {}
                 THEN RoutesToRules(y.Routes)
                 ELSE {y.Rules}
    IN UNION {LoadRules(y.Endpoints, yrules) : yrules \in lists}

RuleMatchesRT(r, bucket, key) ==
    /\ ~(r.Bucket # bucket /\ r.Bucket # Star)
    /\ ~(r.Prefix # Star /\ r.Prefix # <<>> /\ ~HasPrefix(key, r.Prefix))

lookupAction(c, bucket, key, op) ==
    LET hits == {i \in 1..Len(c.Rules) : RuleMatchesRT(c.Rules[i], bucket, key)}
    IN IF hits = {}
       THEN [rule |-> ZeroRuleRT, action |-> <<>>, found |-> FALSE]
       ELSE LET first == CHOOSE i \in hits : \A j \in hits : i <= j
                r == c.Rules[first]
            IN IF op \in DOMAIN r.ActionFor
               THEN [rule |-> r, action |-> r.ActionFor[op], found |-> TRUE]
               ELSE IF "*" \in DOMAIN r.ActionFor
               THEN [rule |-> r, action |-> r.ActionFor["*"], found |-> TRUE]
               ELSE [rule |-> ZeroRuleRT, action |-> <<>>, found |-> FALSE]

-----------------------------------------------------------------------------
(* Inputs of package s3router *)

AliasedBucket == BucketA \o SepAt \o PrimaryName \o SepColon
                   \o BucketB \o SepAt \o SecondaryName    \* "a@primary:b@secondary"
TokBogus == <<98, 111, 103, 117, 115>>            \* "bogus"
BothEndpointsRT == [e \in {PrimaryName, SecondaryName} |-> Url]


\* The documents handed to LoadConfig.  RoutingDocsRT have up to MaxBlocks
\* prefix blocks: the shape of the table.  ValidationDocsRT have one yaml
\* rule: what the validation accepts and refuses.  ShorthandDocs are in the
\* shorthand format, "a", "a/", "a/a" and "*" among the routes.
YamlDocsRT ==
    LET SecondaryOnlyBucket == BucketB \o SepAt \o SecondaryName  \* "b@secondary"
        NamelessBucket == SepAt \o PrimaryName                    \* "@primary"
        BucketSpecs ==
            {BucketA, AliasedBucket, SecondaryOnlyBucket, NamelessBucket, Star}
        TokMirror == <<77, 105, 114, 114, 111, 114>>              \* "Mirror"
        Tokens == {actPrimary, actFallback, TokMirror, TokBogus}
        EndpointMapsRT ==
            {[e \in D |-> Url] : D \in SUBSET {PrimaryName, SecondaryName}}
        RoutingOpMapsRT ==
            {[o \in {"*"} |-> actPrimary],
             [o \in RuleOps |-> IF o = "*" THEN actSecondary ELSE actBestEffort]}
        RoutingDocsRT ==
            {[Endpoints |-> BothEndpointsRT, Rules |-> l, Routes |-> <<>>] :
                l \in RulesLists({Star, AliasedBucket}, PrefixKeys, RoutingOpMapsRT,
                                 MaxBlocks)}
        ValidationDocsRT ==
            {[Endpoints |-> e, Rules |-> <<[Bucket |-> b, Prefix |-> pm]>>,
              Routes |-> <<>>] :
                e \in EndpointMapsRT, b \in BucketSpecs,
                pm \in UNION {PrefixMaps({<<>>, BucketA}, OpMaps(Tokens), k) :
                                k \in 0..2}}
        RouteKeys ==
            {BucketA, BucketA \o SepSlash, BucketA \o SepSlash \o BucketA, Star}
        ShorthandDocs ==
            {[Endpoints |-> BothEndpointsRT, Rules |-> <<>>, Routes |-> r] :
                r \in UNION {[D -> OpMaps({actPrimary, actMirror})] :
                                D \in {S \in SUBSET RouteKeys : Cardinality(S) <= 2}}}
    IN RoutingDocsRT \cup ValidationDocsRT \cup ShorthandDocs


-----------------------------------------------------------------------------
(* The HTTP round-tripper: LoadConfig once, then lookups on the table *)

DoLoadConfig ==
    /\ hpc = "start"
    /\ \E y \in YamlDocsRT : \E r \in LoadConfig(y) :
          /\ hyml' = y
          /\ hcfg' = IF "cfg" \in DOMAIN r THEN r.cfg ELSE Nil
          /\ herr' = IF "err" \in DOMAIN r THEN r.err ELSE Nil
          /\ hpc' = IF "cfg" \in DOMAIN r THEN "loaded" ELSE "failed"
    /\ UNCHANGED <<hret, pc, yml, cfg, err, ret,
                   dispatchVars, transportVars, bodyVars, hookVars>>

\* hret keeps the last call only and the Config never changes.
DoLookupAction ==
    /\ hpc = "loaded" /\ hret = NoCall
    /\ \E bucket \in QueryBuckets, key \in Keys, op \in QueryOps :
          hret' = [fn |-> "lookupAction", bucket |-> bucket, key |-> key, op |-> op,
                   out |-> lookupAction(hcfg, bucket, key, op)]
    /\ UNCHANGED <<hpc, hyml, hcfg, herr, pc, yml, cfg, err, ret,
                   dispatchVars, transportVars, bodyVars, hookVars>>

SpecRT == Init /\ [][DoLoadConfig \/ DoLookupAction]_vars

-----------------------------------------------------------------------------
(* The store router's dispatch: one call of dispatch on two stores, with    *)
(* the goroutines doParallel starts.  An invocation of op is two steps, the *)
(* call and the return, so that the legs interleave as goroutines do.       *)

ZeroT == ""      \* the zero value of the output type T

\* The actions a table can hold: config.Load does not validate the token.
DispatchActions == {ActPrimary, ActSecondary, ActFallback, ActBestEffort, ActMirror,
                    "bogus"}

\* The branch the switch of dispatch takes.
DispatchMode_AlwaysStrict(action) ==
    CASE action = ActPrimary -> "single1"
      [] action = ActSecondary -> "single2"
      [] action = ActFallback -> "serial"
      [] action = ActBestEffort -> "strict"
      [] action = ActMirror -> "strict"
      [] OTHER -> "single1"

DispatchMode_SecondaryIsPrimary(action) ==
    CASE action = ActPrimary -> "single1"
      [] action = ActSecondary -> "single1"
      [] action = ActFallback -> "serial"
      [] action = ActBestEffort -> "besteffort"
      [] action = ActMirror -> "strict"
      [] OTHER -> "single1"

DispatchMode(action) ==
    CASE action = ActPrimary -> "single1"
      [] action = ActSecondary -> "single2"
      [] action = ActFallback -> "serial"
      [] action = ActBestEffort -> "besteffort"
      [] action = ActMirror -> "strict"
      [] OTHER -> "single1"

\* doSerial: the second store is tried when the first returned an error.
SerialRetries_Never(r) == FALSE

SerialRetries(r) == r.err # Nil

\* doParallel, strict: what is returned once both goroutines are done.
StrictResult_SecondaryErrorFirst(out, ea, eb) ==
    IF eb # Nil THEN [out |-> ZeroT, err |-> eb]
    ELSE IF ea # Nil THEN [out |-> ZeroT, err |-> ea]
    ELSE [out |-> out, err |-> Nil]

StrictResult_IgnoreB(out, ea, eb) ==
    IF ea # Nil THEN [out |-> ZeroT, err |-> ea]
    ELSE [out |-> out, err |-> Nil]

StrictResult(out, ea, eb) ==
    IF ea # Nil THEN [out |-> ZeroT, err |-> ea]
    ELSE IF eb # Nil THEN [out |-> ZeroT, err |-> eb]
    ELSE [out |-> out, err |-> Nil]

\* dispatch, doSerial and doParallel hand the outputs of op on or drop them
\* and call nothing on them: no step below changes dclosed.
\* dispatch is entered and takes a branch of its switch.
Dispatch ==
    /\ dpc = "idle"
    /\ \E action \in DispatchActions,
          \* what op returns on the first store and on the second one: Go
          \* allows a value together with an error
          r1 \in {[out |-> "out1", err |-> Nil], [out |-> ZeroT, err |-> "err1"],
                  [out |-> "out1", err |-> "err1"]},
          r2 \in {[out |-> "out2", err |-> Nil], [out |-> ZeroT, err |-> "err2"],
                  [out |-> "out2", err |-> "err2"]} :
          /\ daction' = action
          /\ dmode' = DispatchMode(action)
          /\ dres' = [s1 |-> r1, s2 |-> r2]
          /\ dpc' = CASE DispatchMode(action) = "single2" -> "call2"
                      [] DispatchMode(action) = "strict" -> "spawnA"
                      [] OTHER -> "call1"
    /\ UNCHANGED <<gA, gB, wg, dout, derrA, derrB, dret, dlog, dclosed>>
    /\ UNCHANGED <<configVars, rtVars, transportVars, bodyVars, hookVars>>

\* op(ctx, s1, in1) on the calling goroutine: dispatch, doSerial, best-effort.
MainCall1 ==
    /\ dpc = "call1"
    /\ dpc' = "in1"
    /\ dlog' = Append(dlog, "call1")
    /\ UNCHANGED <<daction, dmode, dres, gA, gB, wg, dout, derrA, derrB, dret, dclosed>>
    /\ UNCHANGED <<configVars, rtVars, transportVars, bodyVars, hookVars>>

MainRet1 ==
    /\ dpc = "in1"
    /\ dlog' = Append(dlog, "ret1")
    /\ CASE dmode = "serial" ->
              IF SerialRetries(dres.s1)
              THEN dpc' = "call2" /\ UNCHANGED <<dout, derrA, dret>>
              ELSE /\ dpc' = "returned"
                   /\ dret' = [out |-> dres.s1.out, err |-> Nil]
                   /\ UNCHANGED <<dout, derrA>>
         [] dmode = "besteffort" ->
              /\ dpc' = "spawn2"
              /\ dout' = dres.s1.out
              /\ derrA' = dres.s1.err
              /\ UNCHANGED dret
         [] OTHER ->
              /\ dpc' = "returned"
              /\ dret' = dres.s1
              /\ UNCHANGED <<dout, derrA>>
    /\ UNCHANGED <<daction, dmode, dres, gA, gB, wg, derrB, dclosed>>
    /\ UNCHANGED <<configVars, rtVars, transportVars, bodyVars, hookVars>>

\* op(ctx, s2, in2) on the calling goroutine: dispatch, doSerial.
MainCall2 ==
    /\ dpc = "call2"
    /\ dpc' = "in2"
    /\ dlog' = Append(dlog, "call2")
    /\ UNCHANGED <<daction, dmode, dres, gA, gB, wg, dout, derrA, derrB, dret, dclosed>>
    /\ UNCHANGED <<configVars, rtVars, transportVars, bodyVars, hookVars>>

MainRet2 ==
    /\ dpc = "in2"
    /\ dpc' = "returned"
    /\ dret' = dres.s2
    /\ dlog' = Append(dlog, "ret2")
    /\ UNCHANGED <<daction, dmode, dres, gA, gB, wg, dout, derrA, derrB, dclosed>>
    /\ UNCHANGED <<configVars, rtVars, transportVars, bodyVars, hookVars>>

\* doParallel, strict: wg.Add(2) and the first go statement.
StrictSpawnA ==
    /\ dpc = "spawnA"
    /\ wg' = 2
    /\ gA' = "ready"
    /\ dpc' = "spawnB"
    /\ UNCHANGED <<daction, dmode, dres, gB, dout, derrA, derrB, dret, dlog, dclosed>>
    /\ UNCHANGED <<configVars, rtVars, transportVars, bodyVars, hookVars>>

\* doParallel, strict: the second go statement.
StrictSpawnB ==
    /\ dpc = "spawnB"
    /\ gB' = "ready"
    /\ dpc' = "wait"
    /\ UNCHANGED <<daction, dmode, dres, gA, wg, dout, derrA, derrB, dret, dlog, dclosed>>
    /\ UNCHANGED <<configVars, rtVars, transportVars, bodyVars, hookVars>>

\* doParallel, strict: wg.Wait() returns and the errors are examined.
StrictJoin ==
    /\ dpc = "wait"
    /\ wg = 0
    /\ dpc' = "returned"
    /\ dret' = StrictResult(dout, derrA, derrB)
    /\ dlog' = Append(dlog, "join")
    /\ UNCHANGED <<daction, dmode, dres, gA, gB, wg, dout, derrA, derrB, dclosed>>
    /\ UNCHANGED <<configVars, rtVars, transportVars, bodyVars, hookVars>>

\* doParallel, best-effort: the go statement for the secondary.
BestEffortSpawn ==
    /\ dpc = "spawn2"
    /\ gB' = "ready"
    /\ dpc' = "leave"
    /\ UNCHANGED <<daction, dmode, dres, gA, wg, dout, derrA, derrB, dret, dlog, dclosed>>
    /\ UNCHANGED <<configVars, rtVars, transportVars, bodyVars, hookVars>>

\* doParallel, best-effort: return out, err.
BestEffortReturn ==
    /\ dpc = "leave"
    /\ dpc' = "returned"
    /\ dret' = [out |-> dout, err |-> derrA]
    /\ dlog' = Append(dlog, "leave")
    /\ UNCHANGED <<daction, dmode, dres, gA, gB, wg, dout, derrA, derrB, dclosed>>
    /\ UNCHANGED <<configVars, rtVars, transportVars, bodyVars, hookVars>>

\* The goroutine of the primary leg (strict).
GoACall ==
    /\ gA = "ready"
    /\ gA' = "in"
    /\ dlog' = Append(dlog, "call1")
    /\ UNCHANGED <<dpc, daction, dmode, dres, gB, wg, dout, derrA, derrB, dret, dclosed>>
    /\ UNCHANGED <<configVars, rtVars, transportVars, bodyVars, hookVars>>

GoARet ==
    /\ gA = "in"
    /\ gA' = "done"
    /\ dout' = dres.s1.out
    /\ derrA' = dres.s1.err
    /\ wg' = wg - 1
    /\ dlog' = Append(dlog, "ret1")
    /\ UNCHANGED <<dpc, daction, dmode, dres, gB, derrB, dret, dclosed>>
    /\ UNCHANGED <<configVars, rtVars, transportVars, bodyVars, hookVars>>

\* The goroutine of the secondary leg (strict and best-effort).
GoBCall ==
    /\ gB = "ready"
    /\ gB' = "in"
    /\ dlog' = Append(dlog, "call2")
    /\ UNCHANGED <<dpc, daction, dmode, dres, gA, wg, dout, derrA, derrB, dret, dclosed>>
    /\ UNCHANGED <<configVars, rtVars, transportVars, bodyVars, hookVars>>

GoBRet ==
    /\ gB = "in"
    /\ gB' = "done"
    /\ dlog' = Append(dlog, "ret2")
    /\ IF dmode = "strict"
       THEN derrB' = dres.s2.err /\ wg' = wg - 1
       ELSE UNCHANGED <<derrB, wg>>
    /\ UNCHANGED <<dpc, daction, dmode, dres, gA, dout, derrA, dret, dclosed>>
    /\ UNCHANGED <<configVars, rtVars, transportVars, bodyVars, hookVars>>

NextD ==
    \/ Dispatch \/ MainCall1 \/ MainRet1 \/ MainCall2 \/ MainRet2
    \/ StrictSpawnA \/ StrictSpawnB \/ StrictJoin
    \/ BestEffortSpawn \/ BestEffortReturn
    \/ GoACall \/ GoARet \/ GoBCall \/ GoBRet

SpecD == Init /\ [][NextD]_vars

\* The Go scheduler runs every goroutine that can run.
SpecDFair == SpecD /\ WF_vars(NextD)

-----------------------------------------------------------------------------
(* The HTTP round-tripper: one call of ruleRT.RoundTrip after lookupAction, *)
(* with doFallback and doDual and the two goroutines doDual starts.         *)
(* sendOnce is two steps, the request sent and the outcome received.        *)

Endpoints == {"primary", "secondary"}

\* A nil *http.Response.
NilResp == [from |-> "none", status |-> 0]

\* What sendOnce on an endpoint can return: a response of the endpoint, a
\* transport error with no response, or a response together with the error
\* of the After hook of a customizer.
Outcomes(ep) ==
    {[resp |-> [from |-> ep, status |-> s], err |-> Nil] : s \in {200, 404, 503}}
    \cup {[resp |-> NilResp, err |-> "transport error of " \o ep],
          [resp |-> [from |-> ep, status |-> 200], err |-> "hook error of " \o ep]}

\* The branch RoundTrip takes.
RoundTripMode(found, action) ==
    CASE ~found -> "primary"
      [] action = actPrimary -> "primary"
      [] action = actSecondary -> "secondary"
      [] action = actFallback -> "fallback"
      [] action = actBestEffort -> "best-effort"
      [] action = actMirror -> "mirror"
      [] OTHER -> "unknown"

\* doFallback: the primary attempt is kept.
FallbackKeeps_Below500(r) == r.err = Nil /\ r.resp.status < 500

FallbackKeeps(r) == r.err = Nil /\ r.resp.status < 400

doDualResult_StrongAlwaysFails(strong, a, b) ==
    IF a.err = Nil /\ a.resp.status < 500
    THEN IF strong
         THEN [resp |-> NilResp, err |-> b.err]
         ELSE [resp |-> a.resp, err |-> Nil]
    ELSE IF ~strong /\ b.err = Nil /\ b.resp.status < 500
         THEN [resp |-> b.resp, err |-> Nil]
         ELSE [resp |-> NilResp, err |-> a.err]

\* doDual: what is returned for the first and the second result received
\* from the channel.
doDualResult(strong, a, b) ==
    IF a.err = Nil /\ a.resp.status < 500
    THEN IF strong /\ (b.err # Nil \/ b.resp.status >= 500)
         THEN [resp |-> NilResp, err |-> b.err]
         ELSE [resp |-> a.resp, err |-> Nil]
    ELSE IF ~strong /\ b.err = Nil /\ b.resp.status < 500
         THEN [resp |-> b.resp, err |-> Nil]
         ELSE [resp |-> NilResp, err |-> a.err]

\* doDual: the endpoints whose response gets its Body closed before the
\* return; a nil response has none.
doDualCloses(strong, a, b) ==
    LET Close(r) == IF r.resp # NilResp THEN {r.resp.from} ELSE {}
    IN IF a.err = Nil /\ a.resp.status < 500
       THEN IF strong /\ (b.err # Nil \/ b.resp.status >= 500)
            THEN Close(a)
            ELSE Close(b)
       ELSE IF ~strong /\ b.err = Nil /\ b.resp.status < 500
            THEN Close(a)
            ELSE Close(a) \cup Close(b)

\* RoundTrip is entered with what lookupAction returned.
RoundTrip ==
    /\ tpc = "idle"
    /\ \E found \in BOOLEAN, action \in reserved \cup {TokBogus},
          p \in Outcomes("primary"), s \in Outcomes("secondary"),
          splitFails \in BOOLEAN :
          /\ taction' = action
          /\ tmode' = RoundTripMode(found, action)
          /\ tout' = [primary |-> p, secondary |-> s]
          /\ tsplit' = splitFails
          /\ LET mode == RoundTripMode(found, action)
             IN CASE mode = "primary" ->
                       tpc' = "send" /\ tep' = "primary" /\ UNCHANGED tret
                  [] mode = "secondary" ->
                       tpc' = "send" /\ tep' = "secondary" /\ UNCHANGED tret
                  [] mode = "fallback" ->
                       tpc' = "send" /\ tep' = "primary" /\ UNCHANGED tret
                  [] mode = "unknown" ->
                       /\ tpc' = "returned"
                       /\ tret' = [resp |-> NilResp,
                                   err |-> "internal error: unknown action"]
                       /\ UNCHANGED tep
                  [] OTHER ->
                       tpc' = "split" /\ UNCHANGED <<tep, tret>>
    /\ UNCHANGED <<leg, chan, resA, resB, sent, closed>>
    /\ UNCHANGED <<configVars, rtVars, dispatchVars, bodyVars, hookVars>>

\* sendOnce on the calling goroutine: the request goes to the endpoint.
SendOnceCall ==
    /\ tpc = "send"
    /\ tpc' = "sent"
    /\ sent' = [sent EXCEPT ![tep] = @ + 1]
    /\ UNCHANGED <<taction, tmode, tout, tsplit, tep, leg, chan, resA, resB, tret, closed>>
    /\ UNCHANGED <<configVars, rtVars, dispatchVars, bodyVars, hookVars>>

\* sendOnce on the calling goroutine returns: RoundTrip returns it for
\* primary and secondary, doFallback keeps it or goes to the secondary.
SendOnceReturn ==
    /\ tpc = "sent"
    /\ IF tmode = "fallback" /\ tep = "primary"
       THEN IF FallbackKeeps(tout.primary)
            THEN /\ tpc' = "returned"
                 /\ tret' = [resp |-> tout.primary.resp, err |-> Nil]
                 /\ UNCHANGED <<tep, closed>>
            ELSE /\ tpc' = "send"
                 /\ tep' = "secondary"
                 /\ closed' = IF tout.primary.resp # NilResp
                               THEN closed \cup {"primary"} ELSE closed
                 /\ UNCHANGED tret
       ELSE /\ tpc' = "returned"
            /\ tret' = tout[tep]
            /\ UNCHANGED <<tep, closed>>
    /\ UNCHANGED <<taction, tmode, tout, tsplit, leg, chan, resA, resB, sent>>
    /\ UNCHANGED <<configVars, rtVars, dispatchVars, bodyVars, hookVars>>

\* doDual: drainBody or teeBody of the request body.
DualSplit ==
    /\ tpc = "split"
    /\ IF tsplit
       THEN /\ tpc' = "returned"
            /\ tret' = [resp |-> NilResp, err |-> "body error"]
       ELSE /\ tpc' = "spawnP"
            /\ UNCHANGED tret
    /\ UNCHANGED <<taction, tmode, tout, tsplit, tep, leg, chan, resA, resB, sent, closed>>
    /\ UNCHANGED <<configVars, rtVars, dispatchVars, bodyVars, hookVars>>

\* doDual: the go statement of the primary leg.
DualSpawnPrimary ==
    /\ tpc = "spawnP"
    /\ tpc' = "spawnS"
    /\ leg' = [leg EXCEPT !["primary"] = "ready"]
    /\ UNCHANGED <<taction, tmode, tout, tsplit, tep, chan, resA, resB, tret, sent, closed>>
    /\ UNCHANGED <<configVars, rtVars, dispatchVars, bodyVars, hookVars>>

\* doDual: the go statement of the secondary leg.
DualSpawnSecondary ==
    /\ tpc = "spawnS"
    /\ tpc' = "recvA"
    /\ leg' = [leg EXCEPT !["secondary"] = "ready"]
    /\ UNCHANGED <<taction, tmode, tout, tsplit, tep, chan, resA, resB, tret, sent, closed>>
    /\ UNCHANGED <<configVars, rtVars, dispatchVars, bodyVars, hookVars>>

\* A leg goroutine of doDual: sendOnce sends the request.
LegSend ==
    /\ \E ep \in Endpoints :
          /\ leg[ep] = "ready"
          /\ leg' = [leg EXCEPT ![ep] = "sent"]
          /\ sent' = [sent EXCEPT ![ep] = @ + 1]
    /\ UNCHANGED <<tpc, taction, tmode, tout, tsplit, tep, chan, resA, resB, tret, closed>>
    /\ UNCHANGED <<configVars, rtVars, dispatchVars, bodyVars, hookVars>>

\* A leg goroutine of doDual: sendOnce returned, c <- result{resp, err}.
LegDone ==
    /\ \E ep \in Endpoints :
          /\ leg[ep] = "sent"
          /\ leg' = [leg EXCEPT ![ep] = "done"]
          /\ chan' = Append(chan, tout[ep])
    /\ UNCHANGED <<tpc, taction, tmode, tout, tsplit, tep, resA, resB, tret, sent, closed>>
    /\ UNCHANGED <<configVars, rtVars, dispatchVars, bodyVars, hookVars>>

\* doDual: resA := <-c
DualRecvA ==
    /\ tpc = "recvA"
    /\ chan # <<>>
    /\ resA' = Head(chan)
    /\ chan' = Tail(chan)
    /\ tpc' = "recvB"
    /\ UNCHANGED <<taction, tmode, tout, tsplit, tep, leg, resB, tret, sent, closed>>
    /\ UNCHANGED <<configVars, rtVars, dispatchVars, bodyVars, hookVars>>

\* doDual: resB := <-c
DualRecvB ==
    /\ tpc = "recvB"
    /\ chan # <<>>
    /\ resB' = Head(chan)
    /\ chan' = Tail(chan)
    /\ tpc' = "choose"
    /\ UNCHANGED <<taction, tmode, tout, tsplit, tep, leg, resA, tret, sent, closed>>
    /\ UNCHANGED <<configVars, rtVars, dispatchVars, bodyVars, hookVars>>

\* doDual: the result is chosen and returned.
DualChoose ==
    /\ tpc = "choose"
    /\ tpc' = "returned"
    /\ tret' = doDualResult(tmode = "mirror", resA, resB)
    /\ closed' = closed \cup doDualCloses(tmode = "mirror", resA, resB)
    /\ UNCHANGED <<taction, tmode, tout, tsplit, tep, leg, chan, resA, resB, sent>>
    /\ UNCHANGED <<configVars, rtVars, dispatchVars, bodyVars, hookVars>>

SpecT ==
    Init /\ [][\/ RoundTrip \/ SendOnceCall \/ SendOnceReturn
               \/ DualSplit \/ DualSpawnPrimary \/ DualSpawnSecondary
               \/ LegSend \/ LegDone
               \/ DualRecvA \/ DualRecvB \/ DualChoose]_vars

-----------------------------------------------------------------------------
(* The store router's body replication: drainBody and the two readers it    *)
(* returns, teeBody with its copy goroutine, its two pipes and the readers  *)
(* of the two handles.                                                      *)

Handles == {1, 2}

\* A source: the bytes it holds and the number of bytes after which reading
\* it fails, -1 when it does not fail.
Sources ==
    {[data |-> d, failAt |-> f] :
        d \in Strings({97, 98}, MaxBody), f \in -1 .. MaxBody} \ 
    {s \in [data : Strings({97, 98}, MaxBody), failAt : -1 .. MaxBody] :
        s.failAt > Len(s.data)}

\* The declared content lengths: nil, below, at and above the threshold.
ContentLengths == {{}} \cup {{n} : n \in MaxBufferBytes - 1 .. MaxBufferBytes + 1}

\* PutObject: how the body of a mirror request is split.
SplitBy(len, max) ==
    IF len = {} \/ (\E n \in len : n >= max) THEN "tee" ELSE "drain"

\* dispatch, doSerial, doParallel: the leg of store h is run, given whether
\* the primary leg returned an error.
LegRuns(action, h, primaryFailed) ==
    CASE action = ActSecondary -> h = 2
      [] action = ActFallback -> IF primaryFailed THEN h = 2 ELSE h = 1
      [] action = ActBestEffort -> TRUE
      [] action = ActMirror -> TRUE
      [] OTHER -> h = 1

\* io.ReadAll(r) in drainBody.
ReadAll(src) ==
    IF src.failAt = -1
    THEN [data |-> src.data, err |-> Nil]
    ELSE [data |-> SubSeq(src.data, 1, src.failAt), err |-> "read error"]

\* What drainBody returns: the bytes the two readers hold, or an error.
drainBody(cancelled, src) ==
    LET r == ReadAll(src)
    IN IF r.err # Nil THEN [data |-> <<>>, err |-> r.err]
       ELSE IF cancelled THEN [data |-> <<>>, err |-> "context canceled"]
       ELSE [data |-> r.data, err |-> Nil]

ReaderOf_Shared(h) == 1

\* The bytes.Reader behind each reader drainBody returns: one per call of
\* bytes.NewReader.
ReaderOf(h) == h

\* The absolute offset of bytes.Reader.Seek, whence 0, 1, 2 for io.SeekStart,
\* io.SeekCurrent, io.SeekEnd.
SeekAbs(off, size, offset, whence) ==
    CASE whence = 0 -> offset
      [] whence = 1 -> off + offset
      [] OTHER -> size + offset

teeCloses_DeferredOnly(e) ==
    <<[h |-> 2, err |-> "EOF"], [h |-> 1, err |-> "EOF"]>>

teeCloses_FirstPipeOnly(e) ==
    IF e = Nil THEN <<[h |-> 1, err |-> "EOF"]>>
    ELSE <<[h |-> 1, err |-> e], [h |-> 1, err |-> "EOF"]>>

\* The closes of the copy goroutine of teeBody, in order, after io.Copy
\* returned e or the context had the error e: CloseWithError on both pipes
\* for an error, then the deferred Close of pw2 and of pw1.
teeCloses(e) ==
    IF e = Nil THEN <<[h |-> 2, err |-> "EOF"], [h |-> 1, err |-> "EOF"]>>
    ELSE <<[h |-> 1, err |-> e], [h |-> 2, err |-> e],
           [h |-> 2, err |-> "EOF"], [h |-> 1, err |-> "EOF"]>>

\* PutObject under mirror: drainBody is called and returns.
DrainBody ==
    /\ bpc = "idle"
    /\ \E src \in Sources, cancelled \in BOOLEAN, len \in ContentLengths :
          LET r == drainBody(cancelled, src)
          IN /\ SplitBy(len, MaxBufferBytes) = "drain"
             /\ blen' = len
             /\ baction' = ActMirror
             /\ bsrc' = src
             /\ bctx' = cancelled
             /\ bpc' = IF r.err = Nil THEN "drained" ELSE "failed"
             /\ berr' = r.err
             /\ bdata' = r.data
    /\ UNCHANGED <<rd, base, got, hend, consume, cpc, chunk, cpos, pend, wend, cops>>
    /\ UNCHANGED <<configVars, rtVars, dispatchVars, transportVars, hookVars>>

\* PutObject under another action: inPrimary and inSecondary are copies of
\* *in and hold the one reader in.Body.
PassBody ==
    /\ bpc = "idle"
    /\ \E src \in Sources, len \in ContentLengths,
          action \in DispatchActions \ {ActMirror} :
          /\ src.failAt = -1
          /\ blen' = len
          /\ baction' = action
          /\ bsrc' = src
          /\ bdata' = src.data
    /\ bpc' = "shared"
    /\ UNCHANGED <<bctx, berr, rd, base, got, hend, consume, cpc, chunk, cpos, pend,
                   wend, cops>>
    /\ UNCHANGED <<configVars, rtVars, dispatchVars, transportVars, hookVars>>

\* The primary leg returns an error; it reads its body no more.
LegFails ==
    /\ bpc = "shared"
    /\ LegRuns(baction, 1, FALSE)
    /\ hend[1] = "open"
    /\ hend' = [hend EXCEPT ![1] = "failed"]
    /\ UNCHANGED <<bpc, baction, blen, bsrc, bctx, berr, bdata, rd, base, got, consume,
                   cpc, chunk, cpos, pend, wend, cops>>
    /\ UNCHANGED <<configVars, rtVars, dispatchVars, transportVars, hookVars>>

\* Read by the leg of store h on the body of its input, with a buffer of n
\* bytes: one of the readers of drainBody, or in.Body.
ReaderRead ==
    /\ bpc \in {"drained", "shared"}
    /\ \E h \in Handles, n \in 1 .. MaxRead :
          LET o == IF bpc = "drained" THEN ReaderOf(h) ELSE 1
              k == IF Len(bdata) - rd[o] < n THEN Len(bdata) - rd[o] ELSE n
          IN /\ hend[h] # "failed"
             /\ LegRuns(baction, h, hend[1] = "failed")
             /\ IF rd[o] >= Len(bdata)
                THEN /\ hend' = [hend EXCEPT ![h] = "EOF"]
                     /\ UNCHANGED <<rd, got>>
                ELSE /\ got' = [got EXCEPT
                                   ![h] = @ \o SubSeq(bdata, rd[o] + 1, rd[o] + k)]
                     /\ rd' = [rd EXCEPT ![o] = @ + k]
                     /\ UNCHANGED hend
    /\ UNCHANGED <<bpc, baction, blen, bsrc, bctx, berr, bdata, base, consume, cpc, chunk, cpos,
                   pend, wend, cops>>
    /\ UNCHANGED <<configVars, rtVars, dispatchVars, transportVars, hookVars>>

\* Seek on one of the readers of drainBody.
ReaderSeek ==
    /\ bpc = "drained"
    /\ \E h \in Handles, offset \in -1 .. 1, whence \in 0 .. 2 :
          LET o == ReaderOf(h)
              abs == SeekAbs(rd[o], Len(bdata), offset, whence)
          IN /\ abs <= Len(bdata) + 1
             /\ IF abs < 0
                THEN UNCHANGED <<rd, base, got, hend>>
                ELSE /\ rd' = [rd EXCEPT ![o] = abs]
                     /\ base' = [base EXCEPT ![h] = abs]
                     /\ got' = [got EXCEPT ![h] = <<>>]
                     /\ hend' = [hend EXCEPT ![h] = "open"]
    /\ UNCHANGED <<bpc, baction, blen, bsrc, bctx, berr, bdata, consume, cpc, chunk, cpos, pend,
                   wend, cops>>
    /\ UNCHANGED <<configVars, rtVars, dispatchVars, transportVars, hookVars>>

\* PutObject under mirror: teeBody is called and returns; the copy goroutine
\* is started.
TeeBody ==
    /\ bpc = "idle"
    /\ \E src \in Sources, cancelled \in BOOLEAN, readers \in SUBSET Handles,
          len \in ContentLengths :
          /\ SplitBy(len, MaxBufferBytes) = "tee"
          /\ blen' = len
          /\ baction' = ActMirror
          /\ bsrc' = src
          /\ bctx' = cancelled
          /\ consume' = readers
    /\ bpc' = "tee"
    /\ cpc' = "select"
    /\ UNCHANGED <<berr, bdata, rd, base, got, hend, chunk, cpos, pend, wend, cops>>
    /\ UNCHANGED <<configVars, rtVars, dispatchVars, transportVars, hookVars>>

\* The context of the call is cancelled.
CtxCancel ==
    /\ bpc = "tee"
    /\ ~bctx
    /\ cpc # "done"
    /\ bctx' = TRUE
    /\ UNCHANGED <<bpc, baction, blen, bsrc, berr, bdata, rd, base, got, hend, consume, cpc, chunk,
                   cpos, pend, wend, cops>>
    /\ UNCHANGED <<configVars, rtVars, dispatchVars, transportVars, hookVars>>

\* The copy goroutine: select on ctx.Done() with a default.
CopierSelect ==
    /\ cpc = "select"
    /\ IF bctx
       THEN cpc' = "closing" /\ cops' = teeCloses("context canceled")
       ELSE cpc' = "read" /\ UNCHANGED cops
    /\ UNCHANGED <<bpc, baction, blen, bsrc, bctx, berr, bdata, rd, base, got, hend, consume, chunk,
                   cpos, pend, wend>>
    /\ UNCHANGED <<configVars, rtVars, dispatchVars, transportVars, hookVars>>

\* The copy goroutine: io.Copy reads the next bytes of the source and begins
\* the Write of the MultiWriter on pw1, or ends with the result of the source.
CopierRead ==
    /\ cpc = "read"
    /\ IF cpos = bsrc.failAt
       THEN /\ cpc' = "closing" /\ cops' = teeCloses("read error")
            /\ UNCHANGED <<chunk, cpos, pend>>
       ELSE IF cpos = Len(bsrc.data)
       THEN /\ cpc' = "closing" /\ cops' = teeCloses(Nil)
            /\ UNCHANGED <<chunk, cpos, pend>>
       ELSE \E k \in 1 .. Len(bsrc.data) - cpos :
               /\ bsrc.failAt = -1 \/ cpos + k <= bsrc.failAt
               /\ chunk' = SubSeq(bsrc.data, cpos + 1, cpos + k)
               /\ cpos' = cpos + k
               /\ pend' = [pend EXCEPT ![1] = SubSeq(bsrc.data, cpos + 1, cpos + k)]
               /\ cpc' = "write1"
               /\ UNCHANGED cops
    /\ UNCHANGED <<bpc, baction, blen, bsrc, bctx, berr, bdata, rd, base, got, hend, consume, wend>>
    /\ UNCHANGED <<configVars, rtVars, dispatchVars, transportVars, hookVars>>

\* The copy goroutine: the Write on a pipe returns once its reader took
\* every byte; the MultiWriter goes on to pw2, io.Copy to the next read.
CopierWritten ==
    /\ \/ /\ cpc = "write1" /\ pend[1] = <<>>
          /\ pend' = [pend EXCEPT ![2] = chunk]
          /\ cpc' = "write2"
       \/ /\ cpc = "write2" /\ pend[2] = <<>>
          /\ cpc' = "read"
          /\ UNCHANGED pend
    /\ UNCHANGED <<bpc, baction, blen, bsrc, bctx, berr, bdata, rd, base, got, hend, consume, chunk,
                   cpos, wend, cops>>
    /\ UNCHANGED <<configVars, rtVars, dispatchVars, transportVars, hookVars>>

\* The copy goroutine: the next close of a pipe writer; the first error a
\* pipe is closed with stays. The goroutine ends after the last.
CopierClose ==
    /\ cpc = "closing"
    /\ IF cops = <<>>
       THEN cpc' = "done" /\ UNCHANGED <<cops, wend>>
       ELSE /\ wend' = [wend EXCEPT ![Head(cops).h] =
                           IF @ = "open" THEN Head(cops).err ELSE @]
            /\ cops' = Tail(cops)
            /\ UNCHANGED cpc
    /\ UNCHANGED <<bpc, baction, blen, bsrc, bctx, berr, bdata, rd, base, got, hend, consume, chunk,
                   cpos, pend>>
    /\ UNCHANGED <<configVars, rtVars, dispatchVars, transportVars, hookVars>>

\* A Read of io.ReadAll on a handle of teeBody: it takes bytes of the Write
\* in progress, or the error the pipe was closed with.
TeeRead ==
    /\ bpc = "tee"
    /\ \E h \in consume :
          /\ hend[h] = "open"
          /\ IF pend[h] # <<>>
             THEN \E k \in 1 .. MaxRead :
                     /\ k <= Len(pend[h])
                     /\ got' = [got EXCEPT ![h] = @ \o SubSeq(pend[h], 1, k)]
                     /\ pend' = [pend EXCEPT
                                    ![h] = SubSeq(@, k + 1, Len(@))]
                     /\ UNCHANGED hend
             ELSE /\ wend[h] # "open"
                  /\ hend' = [hend EXCEPT ![h] = wend[h]]
                  /\ UNCHANGED <<got, pend>>
    /\ UNCHANGED <<bpc, baction, blen, bsrc, bctx, berr, bdata, rd, base, consume, cpc, chunk, cpos,
                   wend, cops>>
    /\ UNCHANGED <<configVars, rtVars, dispatchVars, transportVars, hookVars>>

NextB ==
    \/ DrainBody \/ PassBody \/ LegFails \/ ReaderRead \/ ReaderSeek
    \/ TeeBody \/ CtxCancel
    \/ CopierSelect \/ CopierRead \/ CopierWritten \/ CopierClose
    \/ TeeRead

SpecB == Init /\ [][NextB]_vars

\* The Go scheduler runs every goroutine that can take a step.
SpecBFair == SpecB /\ WF_vars(NextB)

-----------------------------------------------------------------------------
(* HTTP round-tripper: classifying, parsing and rewriting one request.      *)
(* A request is its method, its URL (scheme, host, path as bytes) and its   *)
(* parsed query: a function from the parameter names present to their       *)
(* first value.                                                             *)

SepDot == <<46>>                  \* "."
AclSuffix == <<63, 97, 99, 108>>  \* "?acl"

\* strings.HasSuffix(s, suffix)
HasSuffix(s, suffix) ==
    Len(suffix) <= Len(s) /\ SubSeq(s, Len(s) - Len(suffix) + 1, Len(s)) = suffix

\* strings.TrimPrefix(s, prefix)
TrimPrefix(s, prefix) ==
    IF HasPrefix(s, prefix) THEN SubSeq(s, Len(prefix) + 1, Len(s)) ELSE s

\* url.Values.Get: the first value of the parameter, "" when it is absent
QueryGet(q, k) == IF k \in DOMAIN q THEN q[k] ELSE ""

s3op(r) ==
    LET q == r.Query
        Has(k) == k \in DOMAIN q
    IN CASE r.Method = "PUT" ->
              (CASE Has("uploadId") /\ Has("partNumber") -> "UploadPart"
                 [] Has("uploadId") /\ ~Has("partNumber") -> "CompleteMultipartUpload"
                 [] ~Has("uploadId") /\ HasSuffix(r.Path, AclSuffix) -> "PutBucketAcl"
                 [] OTHER -> "PutObject")
         [] r.Method = "GET" ->
              (CASE QueryGet(q, "list-type") = "2" -> "ListObjectsV2"
                 [] QueryGet(q, "list-type") # "2" /\ QueryGet(q, "uploads") = ""
                        -> "ListMultipartUploads"
                 [] OTHER -> "GetObject")
         [] r.Method = "DELETE" ->
              IF Has("uploadId") THEN "AbortMultipartUpload" ELSE "DeleteObject"
         [] r.Method = "HEAD" -> "HeadObject"
         [] OTHER -> ""

parseS3Path(r) ==
    LET p == TrimPrefix(r.Path, SepSlash)
        parts == SplitN2(p, SepSlash)
        pathBucket == IF p # <<>> THEN parts[1] ELSE <<>>
        key == IF p # <<>> /\ Len(parts) = 2 THEN parts[2] ELSE <<>>
    IN [bucket |-> IF pathBucket = <<>> /\ r.Host # <<>>
                   THEN Split(r.Host, SepDot)[1]
                   ELSE pathBucket,
        key |-> key]

\* strings.TrimRight(s, "/")
TrimRightSlash(s) ==
    LET keep == {i \in 1..Len(s) : s[i] # SepSlash[1]}
    IN IF keep = {} THEN <<>>
       ELSE SubSeq(s, 1, CHOOSE i \in keep : \A j \in keep : j <= i)

\* path.Join(a, b) for a non-empty a and elements without "." or "..":
\* the elements joined by "/", runs of "/" collapsed and a trailing "/"
\* dropped.
Join(a, b) ==
    LET s == IF b = <<>> THEN a ELSE a \o SepSlash \o b
        keep == {i \in 1..Len(s) :
                    s[i] # SepSlash[1] \/ (i < Len(s) /\ s[i + 1] # SepSlash[1])}
        nth(j) == CHOOSE i \in keep : Cardinality({k \in keep : k <= i}) = j
    IN IF keep = {} THEN SepSlash
       ELSE [j \in 1..Cardinality(keep) |-> s[nth(j)]]

rewrite(r, endpoint) ==
    LET ep == TrimRightSlash(endpoint.Path)
    IN [r EXCEPT !.Scheme = endpoint.Scheme,
                 !.Host = endpoint.Host,
                 !.Path = IF ep # <<>> THEN Join(ep, r.Path) ELSE r.Path]

\* rule.Alias is <<>> for a nil map.
applyAlias(r, rule, ep) ==
    IF rule.Alias = <<>> \/ ep \notin DOMAIN rule.Alias
    THEN r
    ELSE LET newName == rule.Alias[ep]
             p == TrimPrefix(r.Path, SepSlash)
         IN IF newName = <<>> \/ newName = rule.Bucket
            THEN r
            ELSE IF HasPrefix(p, rule.Bucket \o SepSlash) \/ p = rule.Bucket
            THEN [r EXCEPT !.Path = SepSlash \o newName \o TrimPrefix(p, rule.Bucket)]
            ELSE IF HasPrefix(r.Host, rule.Bucket \o SepDot)
            THEN [r EXCEPT !.Host = newName \o SepDot
                                      \o TrimPrefix(r.Host, rule.Bucket \o SepDot)]
            ELSE r

\* clone: a copy of the request whose Body is the argument; a Body is the
\* set holding the bytes of its reader, empty for nil.
clone(r, body) == [r EXCEPT !.Body = body]

\* The request a leg sends: sendOnce clones, rewrites, then applies the alias.
sendOnceRequest(src, endpoint, rule, dstEp, body) ==
    applyAlias(rewrite(clone(src, body), endpoint), rule, dstEp)

\* Inputs: the client addresses host "o" (111), an endpoint is at host "e" (101).
\* fn says which function ran last, in its arguments and out its result.
DoS3op ==
    /\ hpc = "start" /\ hret = NoCall
    /\ \E method \in {"GET", "PUT", "DELETE", "HEAD", "POST"}, q \in UNION {[names -> {"", "2"}] :
                       names \in SUBSET {"list-type", "uploads", "partNumber", "uploadId"}},
          path \in {SepSlash \o BucketA \o SepSlash \o BucketB,
                    SepSlash \o BucketA \o AclSuffix} :
          LET r == [Method |-> method, Scheme |-> "http", Host |-> <<111>>,
                    Path |-> path, Query |-> q]
          IN hret' = [fn |-> "s3op", in |-> r, out |-> s3op(r)]
    /\ UNCHANGED <<hpc, hyml, hcfg, herr, pc, yml, cfg, err, ret,
                   dispatchVars, transportVars, bodyVars, hookVars>>

\* The client addresses bucket and key in one of the two styles.
DoParseS3Path ==
    /\ hpc = "start" /\ hret = NoCall
    /\ \E style \in {"path", "virtual-host"}, bucket \in {BucketA, BucketB},
          key \in Keys \cup {BucketA \o SepSlash \o BucketB} :
          LET r == [Method |-> "GET", Scheme |-> "http",
                    Host |-> IF style = "path" THEN <<111>>
                             ELSE bucket \o SepDot \o <<111>>,
                    Path |-> IF style = "path" THEN SepSlash \o bucket \o SepSlash \o key
                             ELSE SepSlash \o key,
                    Query |-> <<>>]
          IN hret' = [fn |-> "parseS3Path", style |-> style, bucket |-> bucket,
                      key |-> key, in |-> r, out |-> parseS3Path(r)]
    /\ UNCHANGED <<hpc, hyml, hcfg, herr, pc, yml, cfg, err, ret,
                   dispatchVars, transportVars, bodyVars, hookVars>>

\* One leg of a path-style request for rule.Bucket.
DoSendOnce ==
    /\ hpc = "start" /\ hret = NoCall
    /\ \E key \in Keys \ {<<>>}, dstEp \in {PrimaryName, SecondaryName},
          scheme \in {"http", "https"},
          prefix \in {<<>>, SepSlash, SepSlash \o BucketB, SepSlash \o BucketB \o SepSlash},
          alias \in {<<>>,
                     (PrimaryName :> BucketA),
                     (PrimaryName :> BucketA) @@ (SecondaryName :> BucketB),
                     (PrimaryName :> BucketA) @@ (SecondaryName :> BucketA),
                     (PrimaryName :> BucketA) @@ (SecondaryName :> <<>>)},
          srcBody \in {{}, {<<97, 98>>}}, nilBody \in BOOLEAN :
          LET rule == [ZeroRuleRT EXCEPT !.Bucket = BucketA, !.Alias = alias]
              endpoint == [Scheme |-> scheme, Host |-> <<101>>, Path |-> prefix]
              src == [Method |-> IF srcBody = {} THEN "GET" ELSE "PUT",
                      Scheme |-> "http", Host |-> <<111>>,
                      Path |-> SepSlash \o BucketA \o SepSlash \o key, Query |-> <<>>,
                      Body |-> srcBody]
              \* nil from RoundTrip and doFallback, a reader of drainBody or
              \* teeBody from doDual
              body == IF nilBody THEN {} ELSE srcBody
          IN /\ nilBody \/ srcBody # {}
             /\ hret' = [fn |-> "sendOnce", src |-> src, endpoint |-> endpoint,
                         rule |-> rule, dstEp |-> dstEp, key |-> key, body |-> body,
                         out |-> sendOnceRequest(src, endpoint, rule, dstEp, body)]
    /\ UNCHANGED <<hpc, hyml, hcfg, herr, pc, yml, cfg, err, ret,
                   dispatchVars, transportVars, bodyVars, hookVars>>

SpecQ == Init /\ [][DoS3op \/ DoParseS3Path \/ DoSendOnce]_vars

-----------------------------------------------------------------------------
(* Customizers: the hooks registered per endpoint and their calls by one    *)
(* leg.  A hook is its name; the error its After returns is its name too.   *)
(* A registered value is a single hook or a multiCustomizer; hooks lists    *)
(* what it calls, in order.                                                 *)

MaxRegs == 3       \* calls of RegisterCustomizer

RegisterCustomizer_KeepsLast(m, endpointName, c) ==
    IF c = Nil
    THEN [e \in DOMAIN m \ {endpointName} |-> m[e]]
    ELSE MapPut(m, endpointName, [multi |-> FALSE, hooks |-> <<c>>])

RegisterCustomizer(m, endpointName, c) ==
    IF c = Nil
    THEN [e \in DOMAIN m \ {endpointName} |-> m[e]]
    ELSE IF endpointName \in DOMAIN m
         THEN MapPut(m, endpointName,
                     [multi |-> TRUE, hooks |-> Append(m[endpointName].hooks, c)])
         ELSE MapPut(m, endpointName, [multi |-> FALSE, hooks |-> <<c>>])

\* The Before calls of a customizer, in order.
Before(c) == c.hooks

\* The After calls of a customizer, in order, and the error it returns;
\* failing holds the hooks whose After returns an error.
After(c, failing) ==
    LET bad == {i \in 1..Len(c.hooks) : c.hooks[i] \in failing}
    IN [calls |-> c.hooks,
        err |-> IF bad = {} THEN Nil
                ELSE c.hooks[CHOOSE i \in bad : \A j \in bad : i <= j]]

sendOnceResult_AfterAlways(t, m, dstEp, failing) ==
    IF dstEp \in DOMAIN m
    THEN [resp |-> t.resp,
          err |-> IF After(m[dstEp], failing).err # Nil
                  THEN After(m[dstEp], failing).err ELSE t.err,
          after |-> After(m[dstEp], failing).calls]
    ELSE [resp |-> t.resp, err |-> t.err, after |-> <<>>]

\* What sendOnce returns for the result t of the transport, and the After
\* calls it made: After runs when the transport returned no error and the
\* endpoint has a customizer, and its error becomes the error returned.
sendOnceResult(t, m, dstEp, failing) ==
    IF t.err = Nil /\ dstEp \in DOMAIN m
    THEN [resp |-> t.resp,
          err |-> After(m[dstEp], failing).err,
          after |-> After(m[dstEp], failing).calls]
    ELSE [resp |-> t.resp, err |-> t.err, after |-> <<>>]

DoRegisterCustomizer ==
    /\ kpc = "idle" /\ Len(reglog) < MaxRegs
    /\ \E endpointName \in {"primary", "secondary"}, c \in {"h1", "h2", "h3", Nil} :
          /\ customizers' = RegisterCustomizer(customizers, endpointName, c)
          /\ reglog' = Append(reglog, <<endpointName, c>>)
    /\ UNCHANGED <<kpc, kcall>>
    /\ UNCHANGED <<configVars, rtVars, dispatchVars, transportVars, bodyVars>>

\* sendOnce reads customizers[dstEp] once and calls Before when it is not nil.
HookBefore ==
    /\ kpc = "idle"
    /\ \E dstEp \in DOMAIN customizers :
          kcall' = [kcall EXCEPT !.ep = dstEp, !.before = Before(customizers[dstEp])]
    /\ kpc' = "before"
    /\ UNCHANGED <<customizers, reglog>>
    /\ UNCHANGED <<configVars, rtVars, dispatchVars, transportVars, bodyVars>>

\* The transport returned no error: sendOnce calls After and returns.
HookAfter ==
    /\ kpc = "before"
    /\ \E failing \in SUBSET {"h1", "h2", "h3"}, status \in {200, 503} :
          LET t == [resp |-> [from |-> kcall.ep, status |-> status], err |-> Nil]
              r == sendOnceResult(t, customizers, kcall.ep, failing)
          IN kcall' = [kcall EXCEPT !.after = r.after, !.failing = failing,
                                    !.err = r.err, !.resp = r.resp]
    /\ kpc' = "after"
    /\ UNCHANGED <<customizers, reglog>>
    /\ UNCHANGED <<configVars, rtVars, dispatchVars, transportVars, bodyVars>>

\* The transport returned an error: sendOnce returns.
HookTransportError ==
    /\ kpc = "before"
    /\ \E failing \in SUBSET {"h1", "h2", "h3"} :
          LET t == [resp |-> NilResp, err |-> "transport error"]
              r == sendOnceResult(t, customizers, kcall.ep, failing)
          IN kcall' = [kcall EXCEPT !.after = r.after, !.failing = failing,
                                    !.err = r.err, !.resp = r.resp]
    /\ kpc' = "failed"
    /\ UNCHANGED <<customizers, reglog>>
    /\ UNCHANGED <<configVars, rtVars, dispatchVars, transportVars, bodyVars>>

SpecH ==
    Init /\ [][DoRegisterCustomizer \/ HookBefore \/ HookAfter \/ HookTransportError]_vars

-----------------------------------------------------------------------------
(* Properties of config.Load, Config.Lookup and router.routeAction *)

\* The compiled rule applies to (bucket, key) by its own bucket.
AppliesExact(rule, bucket, key) ==
    rule.Bucket = bucket /\ (rule.Prefix = <<>> \/ HasPrefix(key, rule.Prefix))

\* The compiled rule applies to (bucket, key), by its bucket or as a wildcard.
Applies(rule, bucket, key) ==
    /\ (rule.Bucket = bucket \/ rule.Bucket = Star)
    /\ (rule.Prefix = <<>> \/ HasPrefix(key, rule.Prefix))

\* The prefix blocks of the loaded document, as <<yaml rule index, prefix>>.
Blocks == {b \in (1..Len(yml.Rules)) \X (PrefixKeys \cup {<<>>}) :
             b[2] \in DOMAIN yml.Rules[b[1]].Prefix}
BlockOps(b) == DOMAIN yml.Rules[b[1]].Prefix[b[2]]

\* C1: whenever rules of the query bucket apply to the key, Lookup returns
\* one of them, and none of them has a longer prefix than the returned one.
C1_LongestPrefixOfBucket ==
    (pc = "loaded" /\ ret.fn = "Lookup") =>
        LET own == {i \in 1..Len(cfg.Rules) :
                      AppliesExact(cfg.Rules[i], ret.bucket, ret.key)}
        IN own # {} =>
             \E i \in own :
                /\ ret.out.rule = cfg.Rules[i]
                /\ \A j \in own :
                      Len(cfg.Rules[j].Prefix) <= Len(cfg.Rules[i].Prefix)

\* C2: when a rule of the exact query bucket applies to the key, Lookup
\* returns a rule of that bucket, not a rule of the wildcard bucket "*".
C2_ExactBucketBeforeWildcard ==
    (pc = "loaded" /\ ret.fn = "Lookup") =>
        ((\E i \in 1..Len(cfg.Rules) :
             AppliesExact(cfg.Rules[i], ret.bucket, ret.key))
           => ret.out.rule.Bucket = ret.bucket)

\* C3: within the rule Lookup matched, the action returned is the entry of
\* the exact operation when the rule has one, and the "*" entry otherwise.
C3_ExactOpThenDefault ==
    (pc = "loaded" /\ ret.fn = "Lookup" /\ \E i \in 1..Len(cfg.Rules) : ret.out.rule = cfg.Rules[i]) =>
        LET acts == ret.out.rule.Actions
        IN IF ret.op \in DOMAIN acts
           THEN ret.out.act = acts[ret.op]
           ELSE "*" \in DOMAIN acts /\ ret.out.act = acts["*"]

\* C3 happens: the matched rule has an exact entry that differs from its default.
C3_Witness ==
    /\ pc = "loaded" /\ ret.fn = "Lookup"
    /\ \E i \in 1..Len(cfg.Rules) : ret.out.rule = cfg.Rules[i]
    /\ ret.op \in DOMAIN ret.out.rule.Actions
    /\ ret.out.rule.Actions[ret.op] # ret.out.rule.Actions["*"]
    /\ ret.out.act = ret.out.rule.Actions[ret.op]

\* C4: when no rule of the table applies to (bucket, key), Lookup returns
\* the action primary with the empty rule, whatever the operation.
C4_NoMatchIsPrimary ==
    (pc = "loaded" /\ ret.fn = "Lookup" /\ \A i \in 1..Len(cfg.Rules) :
                    ~Applies(cfg.Rules[i], ret.bucket, ret.key))
        => ret.out = [rule |-> ZeroRule, act |-> ActPrimary]

\* C4 happens: a table with rules, none of which applies to the query.
C4_Witness ==
    /\ pc = "loaded" /\ ret.fn = "Lookup"
    /\ Len(cfg.Rules) > 0
    /\ \A i \in 1..Len(cfg.Rules) : ~Applies(cfg.Rules[i], ret.bucket, ret.key)
    /\ ret.out.act = ActPrimary

\* C5: a router operation on a bucket to which no rule applies, a bucket
\* absent from the buckets mapping included, is routed to primary without error.
C5_UnmatchedRoutesToPrimary ==
    (pc = "loaded" /\ ret.fn = "routeAction" /\ \A i \in 1..Len(cfg.Rules) :
                  ~Applies(cfg.Rules[i], ret.bucket, ret.key))
        => (ret.out.err = Nil /\ ret.out.action = ActPrimary)

\* C6: Load fails and returns no Config whenever a prefix block of the
\* document has no "*" entry; every rule of a loaded table has one.
C6_DefaultRequired ==
    /\ (pc # "start" /\ \E b \in Blocks : "*" \notin BlockOps(b))
          => (pc = "failed" /\ err # Nil /\ cfg = Nil)
    /\ pc = "loaded" =>
          \A i \in 1..Len(cfg.Rules) : "*" \in DOMAIN cfg.Rules[i].Actions

\* C6 happens: Load refused a document in which one prefix block has a
\* default and another has none.
C6_Witness ==
    /\ pc = "failed"
    /\ \E b \in Blocks : "*" \in BlockOps(b)
    /\ \E b \in Blocks : "*" \notin BlockOps(b)

\* C7: no two rules of a loaded table have the same (Bucket, Prefix).
C7_NoDuplicatePairs ==
    pc = "loaded" =>
        \A i, j \in 1..Len(cfg.Rules) :
            i # j => <<cfg.Rules[i].Bucket, cfg.Rules[i].Prefix>>
                       # <<cfg.Rules[j].Bucket, cfg.Rules[j].Prefix>>

\* C8: every action of a loaded table, and so every action Lookup returns,
\* is one of primary, secondary, fallback, mirror, best-effort.
C8_OnlyKnownActions ==
    LET known == {ActPrimary, ActSecondary, ActFallback, ActMirror, ActBestEffort}
    IN /\ pc = "loaded" =>
             \A i \in 1..Len(cfg.Rules) : \A op \in DOMAIN cfg.Rules[i].Actions :
                 cfg.Rules[i].Actions[op] \in known
       /\ (pc = "loaded" /\ ret.fn = "Lookup") => ret.out.act \in known

\* C9: every loaded Config has an endpoint named primary.
C9_PrimaryEndpointPresent ==
    pc = "loaded" => "primary" \in DOMAIN cfg.Endpoints

\* C10: a Config that LoadConfig returned has an endpoint named secondary
\* whenever one of its rules uses mirror, best-effort or fallback, and
\* lookupAction never returns an action that sends to a missing secondary.
C10_SecondaryEndpointPresent ==
    /\ (hpc = "loaded" /\ \E i \in 1..Len(hcfg.Rules) :
                             \E op \in DOMAIN hcfg.Rules[i].ActionFor :
                                hcfg.Rules[i].ActionFor[op]
                                   \in {actMirror, actBestEffort, actFallback})
          => SecondaryName \in DOMAIN hcfg.Endpoints
    /\ (hpc = "loaded" /\ hret.fn = "lookupAction" /\ hret.out.found
           /\ hret.out.action \in reserved \ {actPrimary})
          => SecondaryName \in DOMAIN hcfg.Endpoints

-----------------------------------------------------------------------------
(* Properties of dispatch, doSerial and doParallel *)

\* How many times the event e is in the log of calls and returns.
Count(log, e) == Cardinality({i \in DOMAIN log : log[i] = e})

\* C11: a mirror call returns only when both legs were invoked once and have
\* returned; it fails exactly when a leg failed, and when both succeeded it
\* returns the output of the primary leg.
C11_MirrorStrict ==
    (daction = ActMirror /\ dpc = "returned") =>
        /\ Count(dlog, "call1") = 1 /\ Count(dlog, "call2") = 1
        /\ Count(dlog, "ret1") = 1 /\ Count(dlog, "ret2") = 1
        /\ dlog[Len(dlog)] = "join"
        /\ (dret.err # Nil) <=> (dres.s1.err # Nil \/ dres.s2.err # Nil)
        /\ (dres.s1.err = Nil /\ dres.s2.err = Nil)
              => dret = [out |-> dres.s1.out, err |-> Nil]

\* C11 happens: the primary leg succeeded, the secondary leg failed, and the
\* mirror call returned the error.
C11_Witness ==
    /\ daction = ActMirror /\ dpc = "returned"
    /\ dres.s1.err = Nil /\ dres.s2.err # Nil
    /\ dret.err = dres.s2.err

C13_FallbackSerial ==
    daction = ActFallback =>
        /\ dlog = SubSeq(<<"call1", "ret1", "call2", "ret2">>, 1, Len(dlog))
        /\ (dres.s1.err = Nil) => Count(dlog, "call2") = 0
        /\ (dpc = "returned" /\ dres.s1.err = Nil)
              => dret = [out |-> dres.s1.out, err |-> Nil]
        /\ (dpc = "returned" /\ dres.s1.err # Nil)
              => (Count(dlog, "call2") = 1 /\ dret = dres.s2)

\* C13 happens: the primary leg failed and the call returned what the
\* secondary leg returned, an error included.
C13_Witness ==
    /\ daction = ActFallback /\ dpc = "returned"
    /\ dres.s1.err # Nil /\ dres.s2.err # Nil
    /\ dlog = <<"call1", "ret1", "call2", "ret2">>
    /\ dret = dres.s2

\* C14: for the action primary only the first store is invoked, once, and
\* for the action secondary only the second store, once; what the invoked
\* leg returns is returned as it is.
C14_SingleLeg ==
    /\ daction = ActPrimary =>
          /\ Count(dlog, "call2") = 0 /\ gB = "none"
          /\ Count(dlog, "call1") <= 1
          /\ dpc = "returned" => (Count(dlog, "call1") = 1 /\ dret = dres.s1)
    /\ daction = ActSecondary =>
          /\ Count(dlog, "call1") = 0 /\ gA = "none"
          /\ Count(dlog, "call2") <= 1
          /\ dpc = "returned" => (Count(dlog, "call2") = 1 /\ dret = dres.s2)

\* C14 happens: a secondary call returned the error of the second store.
C14_Witness ==
    /\ daction = ActSecondary /\ dpc = "returned"
    /\ dres.s2.err # Nil /\ dret = dres.s2
    /\ dlog = <<"call2", "ret2">>

-----------------------------------------------------------------------------
(* Properties of the HTTP round-tripper.                                    *)

C17_MirrorReturnsPrimaryResponse ==
    (tpc = "returned" /\ tmode = "mirror" /\ ~tsplit
        /\ \A ep \in Endpoints : tout[ep].err = Nil /\ tout[ep].resp.status < 500) =>
       tret.err = Nil /\ tret.resp = tout.primary.resp

\* C18: what RoundTrip returns for a best-effort request is the outcome of
\* the primary leg: never the response or the error of the secondary leg,
\* and the response of the primary endpoint when the primary leg succeeded,
\* whichever leg completed first.
C18_BestEffortReturnsPrimaryOutcome ==
    (tpc = "returned" /\ tmode = "best-effort" /\ ~tsplit) =>
       /\ tret.resp.from # "secondary"
       /\ tret.err = Nil \/ tret.err # tout.secondary.err
       /\ (tout.primary.err = Nil /\ tout.primary.resp.status < 500) =>
              tret.err = Nil /\ tret.resp = tout.primary.resp

-----------------------------------------------------------------------------
(* Properties of drainBody and teeBody.                                     *)

\* C19: the two readers drainBody returns on a source of N bytes each hold
\* the N bytes of the source: what a reader yielded since it was created or
\* last sought is the bytes of the source from that offset on, in order,
\* up to the end of the source once Read returned io.EOF; and a Read or a
\* Seek on one reader leaves what the other has left to yield as it was.
C19_DrainBodyTwoReaders ==
    /\ [](bpc = "drained" =>
            /\ bdata = bsrc.data
            /\ \A h \in Handles :
                  /\ got[h] = SubSeq(bsrc.data, base[h] + 1, base[h] + Len(got[h]))
                  /\ hend[h] = "EOF" => base[h] + Len(got[h]) >= Len(bsrc.data))
    /\ [][(bpc = "drained" /\ bpc' = "drained") =>
            \A h \in Handles :
               (got'[h] = got[h] /\ base'[h] = base[h] /\ hend'[h] = hend[h]) =>
                  SubSeq(bdata', rd'[ReaderOf(h)] + 1, Len(bdata'))
                     = SubSeq(bdata, rd[ReaderOf(h)] + 1, Len(bdata))]_vars

\* The first reader was read to the end while the second, after a Seek to
\* offset 1, was read to the end too.
C19_Witness ==
    /\ bpc = "drained" /\ Len(bsrc.data) = MaxBody
    /\ base[1] = 0 /\ hend[1] = "EOF" /\ got[1] = bsrc.data
    /\ base[2] = 1 /\ hend[2] = "EOF" /\ got[2] = Tail(bsrc.data)

\* C20: what a handle of teeBody yielded is always the first bytes of the
\* source, and all of them when its Read returned io.EOF; when the context
\* is not cancelled at the start of the copy, the source does not fail and
\* both handles are read, both handles yield every byte of the source and
\* then io.EOF, and the copy goroutine ends.
C20_TeeBodyBothRead ==
    /\ [](bpc = "tee" =>
            \A h \in Handles :
               /\ Len(got[h]) <= Len(bsrc.data)
               /\ got[h] = SubSeq(bsrc.data, 1, Len(got[h]))
               /\ hend[h] = "EOF" => got[h] = bsrc.data)
    /\ (bpc = "tee" /\ cpc = "read" /\ consume = Handles /\ bsrc.failAt = -1)
          ~> (/\ cpc = "done"
              /\ \A h \in Handles : hend[h] = "EOF" /\ got[h] = bsrc.data)

\* Both handles of a source of the greatest length were read to io.EOF and
\* the copy goroutine ended, the context never cancelled.
C20_Witness ==
    /\ bpc = "tee" /\ cpc = "done" /\ ~bctx /\ consume = Handles
    /\ Len(bsrc.data) = MaxBody
    /\ \A h \in Handles : hend[h] = "EOF" /\ got[h] = bsrc.data

-----------------------------------------------------------------------------
(* Properties of PutObject's request body.                                  *)

\* C21: PutObject under mirror splits the body with drainBody when the
\* declared content length is below maxBufferBytes or is nil, and with
\* teeBody when it is equal to or above maxBufferBytes.
C21_SplitByDeclaredLength ==
    /\ bpc \in {"drained", "failed"} =>
           blen = {} \/ \E n \in blen : n < MaxBufferBytes
    /\ bpc = "tee" => \E n \in blen : n >= MaxBufferBytes

\* C22: under every action, a leg of PutObject that read the body of its
\* input from the start to io.EOF got exactly the bytes of in.Body.
C22_EveryLegGetsOriginalBytes ==
    \A h \in Handles :
       (bpc \in {"drained", "shared", "tee"} /\ base[h] = 0 /\ hend[h] = "EOF") =>
          got[h] = bsrc.data

-----------------------------------------------------------------------------
(* Properties of Config.PhysicalBuckets.                                    *)

\* C25: PhysicalBuckets returns for each endpoint the physical bucket the
\* mapping names for it and the logical name where the mapping names none,
\* and a router operation addresses the primary leg to the first value and
\* the secondary leg to the second.
C25_PhysicalBucketPerEndpoint ==
    LET mapped == ret.bucket \in DOMAIN cfg.Buckets
        primary == IF mapped /\ cfg.Buckets[ret.bucket].Primary # <<>>
                   THEN cfg.Buckets[ret.bucket].Primary ELSE ret.bucket
        secondary == IF mapped /\ cfg.Buckets[ret.bucket].Secondary # <<>>
                     THEN cfg.Buckets[ret.bucket].Secondary ELSE ret.bucket
    IN /\ ret.fn = "PhysicalBuckets" => ret.out = <<primary, secondary>>
       /\ (ret.fn = "routeAction" /\ ret.out.err = Nil) =>
              (ret.inPrimary = primary /\ ret.inSecondary = secondary)

-----------------------------------------------------------------------------
(* Properties of s3op, parseS3Path and sendOnce's outbound request.         *)

\* C23: s3op maps every GET request that carries neither list-type=2 nor an
\* uploads parameter to GetObject, and classifies a GET request as
\* ListMultipartUploads only when it carries the uploads parameter.
C23_PlainGetIsGetObject ==
    (hret.fn = "s3op" /\ hret.in.Method = "GET") =>
        LET q == hret.in.Query
        IN /\ (QueryGet(q, "list-type") # "2" /\ "uploads" \notin DOMAIN q)
                 => hret.out = "GetObject"
           /\ hret.out = "ListMultipartUploads" => "uploads" \in DOMAIN q

\* C24: parseS3Path returns the bucket and key the client addressed, for a
\* path-style URL /bucket/key and for a virtual-host-style URL
\* bucket.host/key with a non-empty key.
C24_ParseBothStyles ==
    (hret.fn = "parseS3Path" /\ (hret.style = "path" \/ hret.key # <<>>)) =>
        hret.out = [bucket |-> hret.bucket, key |-> hret.key]

\* C26: the request sendOnce sends for a path-style /bucket/key has the
\* endpoint's scheme, host and path prefix, and its bucket segment is the
\* alias of the target endpoint when the rule has one that differs from the
\* canonical bucket, the canonical bucket otherwise.
C26_SendOnceRewritesAndAliases ==
    hret.fn = "sendOnce" =>
        LET al == hret.rule.Alias
            aliased == /\ hret.dstEp \in DOMAIN al
                       /\ al[hret.dstEp] \notin {<<>>, hret.rule.Bucket}
            segment == IF aliased THEN al[hret.dstEp] ELSE hret.rule.Bucket
        IN /\ hret.out.Scheme = hret.endpoint.Scheme
           /\ hret.out.Host = hret.endpoint.Host
           /\ hret.out.Path = TrimRightSlash(hret.endpoint.Path) \o SepSlash
                                 \o segment \o SepSlash \o hret.key

-----------------------------------------------------------------------------
(* Properties of RegisterCustomizer and multiCustomizer.                    *)

\* C27: with h1..hn the hooks registered for an endpoint since its last
\* RegisterCustomizer(nil), the endpoint's customizer calls Before of h1..hn
\* once each in that order and After of h1..hn once each in that order,
\* After returns the error of the first hook in that order that returns
\* one, and an endpoint is registered exactly when that list is not empty
\* (so a nil registration clears that endpoint and no other).
C27_HooksComposeInOrder ==
    LET Registered(ep) ==
            LET clears == {i \in 1..Len(reglog) : reglog[i] = <<ep, Nil>>}
                k == IF clears = {} THEN 0
                     ELSE CHOOSE i \in clears : \A j \in clears : j <= i
                rest == SelectSeq(SubSeq(reglog, k + 1, Len(reglog)),
                                  LAMBDA e : e[1] = ep)
            IN [i \in 1..Len(rest) |-> rest[i][2]]
        FirstError(hooks, failing) ==
            IF \E i \in 1..Len(hooks) : hooks[i] \in failing
            THEN hooks[CHOOSE i \in 1..Len(hooks) :
                          /\ hooks[i] \in failing
                          /\ \A j \in 1..(i - 1) : hooks[j] \notin failing]
            ELSE Nil
    IN /\ \A ep \in {"primary", "secondary"} :
             /\ ep \in DOMAIN customizers <=> Registered(ep) # <<>>
             /\ ep \in DOMAIN customizers => customizers[ep].hooks = Registered(ep)
       /\ kpc \in {"before", "after"} => kcall.before = Registered(kcall.ep)
       /\ kpc = "after" =>
             /\ kcall.after = Registered(kcall.ep)
             /\ kcall.err = FirstError(Registered(kcall.ep), kcall.failing)

\* Three hooks on one endpoint; the After of the second and of the third
\* return an error, the first's does not.
C27_Witness ==
    /\ kpc = "after" /\ Len(kcall.after) = 3
    /\ kcall.err = kcall.after[2] /\ kcall.after[3] \in kcall.failing

-----------------------------------------------------------------------------
(* Properties of what doDual and doFallback return and close.               *)

\* C28: doDual returns either a response and no error or no response and an
\* error, under mirror and under best-effort; so a leg that completes with
\* a status >= 500 and no transport error makes a mirror call return an
\* error.
C28_DualReturnsOneResult ==
    (tpc = "returned" /\ tmode \in {"mirror", "best-effort"}) =>
        \/ tret.resp # NilResp /\ tret.err = Nil
        \/ tret.resp = NilResp /\ tret.err # Nil

\* C29: when doDual or doFallback has returned, every response a leg
\* received, other than the one returned to the caller, has had its Body
\* closed.
C29_UnreturnedResponsesClosed ==
    (tpc = "returned" /\ tmode \in {"mirror", "best-effort", "fallback"}) =>
        \A ep \in Endpoints :
           (sent[ep] = 1 /\ tout[ep].resp # NilResp /\ tret.resp # tout[ep].resp) =>
              ep \in closed

-----------------------------------------------------------------------------
(* Properties of the outputs doParallel does not return.                    *)

\* C30: under mirror and best-effort, once dispatch has returned and the
\* goroutines it started are done, the output of a leg whose op succeeded
\* and which was not returned to the caller has been closed.
C30_UnreturnedOutputClosed ==
    (dpc = "returned" /\ dmode \in {"strict", "besteffort"}
        /\ gA \in {"none", "done"} /\ gB \in {"none", "done"}) =>
       \A s \in {"s1", "s2"} :
          (dres[s].err = Nil /\ dret.out # dres[s].out) => dres[s].out \in dclosed

-----------------------------------------------------------------------------
(* Properties of teeBody with an unread handle, a cancelled context and a   *)
(* failing source.                                                          *)

\* C31: a consumer that reads one handle of teeBody while the other handle
\* is not read at all comes to the end of its reading.
C31_OneHandleReadCompletes ==
    \A h \in Handles :
       (bpc = "tee" /\ cpc = "read" /\ consume = {h}) ~> (hend[h] # "open")

\* C32: a mirror PutObject whose body teeBody replicates returns: the leg of
\* a handle that is read returns when its reading ended, the leg of a
\* handle that is not read has returned without reading, and wg.Wait
\* returns once both legs have.
C32_MirrorTeeReturns ==
    (bpc = "tee" /\ baction = ActMirror) ~> (\A h \in consume : hend[h] # "open")

\* C33: once the context is cancelled while the copy of teeBody is in
\* progress, the reads on both handles come to fail with the cancellation
\* error and the copy goroutine ends.
C33_CancelFailsBothHandles ==
    (bpc = "tee" /\ consume = Handles /\ bsrc.failAt = -1 /\ bctx
        /\ cpc \in {"read", "write1", "write2"})
       ~> (cpc = "done" /\ \A h \in Handles : hend[h] = "context canceled")

\* C34: when reading the source fails during the copy of teeBody, each of
\* the two readers gets the bytes read before the failure and then that
\* error, and no handle ever yields io.EOF after fewer bytes than the
\* source held.
C34_SourceErrorReachesBothHandles ==
    /\ [](bpc = "tee" =>
            \A h \in Handles :
               hend[h] = "EOF" => (got[h] = bsrc.data /\ bsrc.failAt = -1))
    /\ (bpc = "tee" /\ cpc = "read" /\ consume = Handles /\ bsrc.failAt # -1)
          ~> (\A h \in Handles :
                 /\ hend[h] = "read error"
                 /\ got[h] = SubSeq(bsrc.data, 1, bsrc.failAt))

\* The source failed after its first two bytes; both readers hold them and
\* got the error.
C34_Witness ==
    /\ bpc = "tee" /\ consume = Handles /\ bsrc.failAt = 2 /\ Len(bsrc.data) = MaxBody
    /\ \A h \in Handles :
          hend[h] = "read error" /\ got[h] = SubSeq(bsrc.data, 1, 2)

-----------------------------------------------------------------------------
(* Properties of sendOnce: the body it forwards and the errors it returns.  *)

\* C35: sendOnce called with a nil body sends the backend a request that
\* carries the body of the original request.
C35_NilBodyForwardsOriginal ==
    (hret.fn = "sendOnce" /\ hret.body = {}) => hret.out.Body = hret.src.Body

\* C36: when the transport returns an error sendOnce calls no After hook
\* and returns that error; when the transport succeeds and a hook's After
\* returns an error sendOnce returns the error of the After chain, which
\* doFallback does not keep as the primary's answer; with no failing hook
\* sendOnce returns no error.
C36_AfterOnlyOnTransportSuccess ==
    /\ kpc = "failed" =>
          kcall.after = <<>> /\ kcall.err = "transport error"
    /\ kpc = "after" =>
          LET bad == {i \in 1..Len(kcall.after) : kcall.after[i] \in kcall.failing}
          IN /\ kcall.after = customizers[kcall.ep].hooks
             /\ bad = {} => kcall.err = Nil
             /\ bad # {} =>
                   /\ kcall.err \in {kcall.after[i] : i \in bad}
                   /\ ~FallbackKeeps([resp |-> kcall.resp, err |-> kcall.err])

\* The primary endpoint answered 200 and the After of a hook failed.
C36_Witness ==
    /\ kpc = "after" /\ kcall.ep = "primary"
    /\ kcall.resp.status = 200 /\ kcall.err # Nil

-----------------------------------------------------------------------------
(* Properties of the error doParallel returns under mirror.                 *)

\* C37: under mirror, when the primary leg failed the error returned is the
\* primary leg's error, whichever leg finished first, and the secondary
\* leg's error is returned only when the primary leg succeeded.
C37_MirrorPrimaryErrorFirst ==
    (dpc = "returned" /\ dmode = "strict") =>
        /\ dres.s1.err # Nil => dret.err = dres.s1.err
        /\ (dres.s2.err # Nil /\ dret.err = dres.s2.err) => dres.s1.err = Nil

\* Both legs failed, the secondary leg returned first and the caller got
\* the primary leg's error.
C37_Witness ==
    /\ dpc = "returned" /\ dmode = "strict"
    /\ dres.s1.err # Nil /\ dres.s2.err # Nil
    /\ \E i, j \in 1..Len(dlog) : i < j /\ dlog[i] = "ret2" /\ dlog[j] = "ret1"
    /\ dret.err = dres.s1.err

-----------------------------------------------------------------------------
(* Properties of lookupAction on the table LoadConfig sorted.               *)

\* C38: the rule lookupAction returns has the longest prefix among the
\* rules of its bucket that match the key, the catch-all prefix "*" counting
\* as the shortest: "*" is not selected when a rule of the same bucket has
\* a prefix of one byte or more that the key starts with.
C38_LongestPrefixWithinBucket ==
    (hpc = "loaded" /\ hret.fn = "lookupAction" /\ hret.out.found) =>
        LET r == hret.out.rule
            Specificity(q) == IF q.Prefix = Star THEN 0 ELSE Len(q.Prefix)
        IN \A i \in 1..Len(hcfg.Rules) :
              (/\ hcfg.Rules[i].Bucket = r.Bucket
               /\ RuleMatchesRT(hcfg.Rules[i], hret.bucket, hret.key)) =>
                 Specificity(hcfg.Rules[i]) <= Specificity(r)

====
